---- MODULE Spec2Model ----
(***************************************************************************)
(* A model of the Infura Gas API client (package infura): client           *)
(* construction, the authentication selector, the transport invoker        *)
(* (doRequest / doJSONRequest), the four endpoint methods and the          *)
(* diagnostic output.                                                      *)
(*                                                                         *)
(* Strings are sequences of symbols.  A symbol is a one-character string,  *)
(* except in response bodies and messages, where a whole lexeme (a JSON    *)
(* literal, a fixed piece of message text) is one symbol.                  *)
(***************************************************************************)
EXTENDS Integers, Sequences, FiniteSets, TLC

VARIABLES
    heap,     \* the http.Client objects: handle -> [Timeout]
    client,   \* the Client under use
    built,    \* how the client was constructed: [ctor, args]
    calls,    \* per caller: the endpoint call it is executing
    probe     \* argument and result of a function applied on its own

vars == <<heap, client, built, calls, probe>>

----------------------------------------------------------------------------
(* Strings                                                                 *)

Max(a, b) == IF a >= b THEN a ELSE b

Min(a, b) == IF a <= b THEN a ELSE b

\* The first index of symbol c in s, or 0 (strings.IndexByte, 1-based).
IndexOf(s, c) ==
    IF \E i \in 1..Len(s) : s[i] = c
    THEN CHOOSE i \in 1..Len(s) : s[i] = c /\ \A j \in 1..(i - 1) : s[j] # c
    ELSE 0

\* s[:n] and s[n:] with Go's 0-based bounds.
Take(s, n) == SubSeq(s, 1, n)

Drop(s, n) == SubSeq(s, n + 1, Len(s))

HasPrefix(s, p) == Len(p) <= Len(s) /\ Take(s, Len(p)) = p

\* strings.Contains: p occurs in s as a contiguous piece.
Contains(s, p) ==
    \E i \in 0..(Len(s) - Len(p)) : SubSeq(s, i + 1, i + Len(p)) = p

DigitSym == <<"0", "1", "2", "3", "4", "5", "6", "7", "8", "9">>

RECURSIVE Digits(_)
Digits(n) ==
    IF n < 10 THEN <<DigitSym[n + 1]>>
    ELSE Digits(n \div 10) \o <<DigitSym[(n % 10) + 1]>>

\* fmt's %d of an integer.
FmtInt(n) == IF n < 0 THEN <<"-">> \o Digits(0 - n) ELSE Digits(n)

----------------------------------------------------------------------------
(* Constants of the package                                                *)

\* "https://gas.api.infura.io"
BaseURL ==
    <<"h", "t", "t", "p", "s", ":", "/", "/", "g", "a", "s", ".", "a", "p",
      "i", ".", "i", "n", "f", "u", "r", "a", ".", "i", "o">>

\* 30 * time.Second, in seconds.
DefaultTimeout == 30

----------------------------------------------------------------------------
(* Construction                                                            *)

\* &http.Client{Timeout: t}: a fresh object on the heap.
NewHTTPClient(h, t) == Append(h, [Timeout |-> t])

NewClient(h, apiKey, apiKeySecret) ==
    [heap   |-> NewHTTPClient(h, DefaultTimeout),
     client |-> [apiKey |-> apiKey, apiKeySecret |-> apiKeySecret,
                 baseURL |-> BaseURL, httpClient |-> Len(h) + 1,
                 debug |-> FALSE]]

\* NewClientWithAPIKey with &http.Client{}: a transport without timeout.
NewClientWithAPIKeyNoTimeout(h, apiKey) ==
    [heap   |-> NewHTTPClient(h, 0),
     client |-> [apiKey |-> apiKey, apiKeySecret |-> <<>>,
                 baseURL |-> BaseURL, httpClient |-> Len(h) + 1,
                 debug |-> FALSE]]

NewClientWithAPIKey(h, apiKey) ==
    [heap   |-> NewHTTPClient(h, DefaultTimeout),
     client |-> [apiKey |-> apiKey, apiKeySecret |-> <<>>,
                 baseURL |-> BaseURL, httpClient |-> Len(h) + 1,
                 debug |-> FALSE]]

WithBaseURL(baseURL) == [opt |-> "WithBaseURL", baseURL |-> baseURL]

WithHTTPClient(httpClient) == [opt |-> "WithHTTPClient", httpClient |-> httpClient]

WithTimeout(timeout) == [opt |-> "WithTimeout", timeout |-> timeout]

WithDebug(debug) == [opt |-> "WithDebug", debug |-> debug]

\* opt(client): the effect of one option function on the client and the heap.
ApplyOption(st, o) ==
    CASE o.opt = "WithBaseURL" ->
            [st EXCEPT !.client.baseURL = o.baseURL]
      [] o.opt = "WithHTTPClient" ->
            [st EXCEPT !.client.httpClient = o.httpClient]
      [] o.opt = "WithTimeout" ->
            [st EXCEPT !.heap[st.client.httpClient].Timeout = o.timeout]
      [] o.opt = "WithDebug" ->
            [st EXCEPT !.client.debug = o.debug]

\* The options applied from the last to the first.
RECURSIVE ApplyOptionsBackwards(_, _)
ApplyOptionsBackwards(st, opts) ==
    IF opts = <<>> THEN st
    ELSE ApplyOption(ApplyOptionsBackwards(st, Tail(opts)), Head(opts))

\* for _, opt := range opts { opt(client) }
RECURSIVE ApplyOptions(_, _)
ApplyOptions(st, opts) ==
    IF opts = <<>> THEN st
    ELSE ApplyOptions(ApplyOption(st, Head(opts)), Tail(opts))

\* NewClientWithOptions taking the credential for the secret it was not
\* given.
NewClientWithOptionsDefaultSecret(h, apiKey, apiKeySecret, opts) ==
    ApplyOptions(
        [heap   |-> NewHTTPClient(h, DefaultTimeout),
         client |-> [apiKey |-> apiKey,
                     apiKeySecret |-> IF apiKeySecret = <<>> THEN apiKey
                                      ELSE apiKeySecret,
                     baseURL |-> BaseURL, httpClient |-> Len(h) + 1,
                     debug |-> FALSE]],
        opts)

NewClientWithOptions(h, apiKey, apiKeySecret, opts) ==
    ApplyOptions(
        [heap   |-> NewHTTPClient(h, DefaultTimeout),
         client |-> [apiKey |-> apiKey, apiKeySecret |-> apiKeySecret,
                     baseURL |-> BaseURL, httpClient |-> Len(h) + 1,
                     debug |-> FALSE]],
        opts)

NewClientWithAPIKeyAndOptions(h, apiKey, opts) ==
    ApplyOptions(
        [heap   |-> NewHTTPClient(h, DefaultTimeout),
         client |-> [apiKey |-> apiKey, apiKeySecret |-> <<>>,
                     baseURL |-> BaseURL, httpClient |-> Len(h) + 1,
                     debug |-> FALSE]],
        opts)

----------------------------------------------------------------------------
(* Authentication selector                                                 *)

\* The mode taken from the first credential instead of the secret.
hasAPIKey(c) == c.apiKey # <<>>

hasSecret(c) == c.apiKeySecret # <<>>

\* The printable ASCII characters, 32 to 126, in order (the backtick is
\* written by name).
Printable ==
    <<" ", "!", "\"", "#", "$", "%", "&", "'", "(", ")", "*", "+", ",", "-",
      ".", "/", "0", "1", "2", "3", "4", "5", "6", "7", "8", "9", ":", ";",
      "<", "=", ">", "?", "@", "A", "B", "C", "D", "E", "F", "G", "H", "I",
      "J", "K", "L", "M", "N", "O", "P", "Q", "R", "S", "T", "U", "V", "W",
      "X", "Y", "Z", "[", "\\", "]", "^", "_", "backtick", "a", "b", "c", "d", "e",
      "f", "g", "h", "i", "j", "k", "l", "m", "n", "o", "p", "q", "r", "s",
      "t", "u", "v", "w", "x", "y", "z", "{", "|", "}", "~">>

\* []byte(s): the byte of each character.
Ord(c) == 31 + IndexOf(Printable, c)

Bytes(s) == [i \in 1..Len(s) |-> Ord(s[i])]

\* string(b)
Chr(b) == Printable[b - 31]

FromBytes(b) == [i \in 1..Len(b) |-> Chr(b[i])]

\* The alphabet of base64.StdEncoding.
encodeStd ==
    <<"A", "B", "C", "D", "E", "F", "G", "H", "I", "J", "K", "L", "M", "N",
      "O", "P", "Q", "R", "S", "T", "U", "V", "W", "X", "Y", "Z", "a", "b",
      "c", "d", "e", "f", "g", "h", "i", "j", "k", "l", "m", "n", "o", "p",
      "q", "r", "s", "t", "u", "v", "w", "x", "y", "z", "0", "1", "2", "3",
      "4", "5", "6", "7", "8", "9", "+", "/">>

\* base64.StdEncoding.EncodeToString: three bytes give four characters, a
\* remainder of one or two bytes is padded with "=".
RECURSIVE EncodeToString(_)
EncodeToString(src) ==
    IF Len(src) = 0 THEN <<>>
    ELSE IF Len(src) = 1 THEN
        LET val == src[1] * 65536
        IN  <<encodeStd[((val \div 262144) % 64) + 1],
              encodeStd[((val \div 4096) % 64) + 1], "=", "=">>
    ELSE IF Len(src) = 2 THEN
        LET val == src[1] * 65536 + src[2] * 256
        IN  <<encodeStd[((val \div 262144) % 64) + 1],
              encodeStd[((val \div 4096) % 64) + 1],
              encodeStd[((val \div 64) % 64) + 1], "=">>
    ELSE
        LET val == src[1] * 65536 + src[2] * 256 + src[3]
        IN  <<encodeStd[((val \div 262144) % 64) + 1],
              encodeStd[((val \div 4096) % 64) + 1],
              encodeStd[((val \div 64) % 64) + 1],
              encodeStd[(val % 64) + 1]>> \o EncodeToString(Drop(src, 3))

BasicPrefix == <<"B", "a", "s", "i", "c", " ">>

\* The header without the colon between the credentials.
getAuthHeaderUnseparated(c) ==
    LET auth == c.apiKey \o c.apiKeySecret
    IN  BasicPrefix \o EncodeToString(Bytes(auth))

getAuthHeader(c) ==
    LET auth == c.apiKey \o <<":">> \o c.apiKeySecret
    IN  BasicPrefix \o EncodeToString(Bytes(auth))

\* base64.StdEncoding.DecodeString, as the test of the package uses it to read the
\* header back: [ok, bytes].
RECURSIVE DecodeString(_)
DecodeString(s) ==
    LET Val(ch) == IndexOf(encodeStd, ch) - 1
        IsB64(ch) == IndexOf(encodeStd, ch) > 0
        Group(rest) ==
            [ok |-> rest.ok,
             bytes |-> <<(Val(s[1]) * 4 + Val(s[2]) \div 16) % 256,
                         (Val(s[2]) * 16 + Val(s[3]) \div 4) % 256,
                         (Val(s[3]) * 64 + Val(s[4])) % 256>>
                       \o rest.bytes]
    IN
    IF Len(s) = 0 THEN [ok |-> TRUE, bytes |-> <<>>]
    ELSE IF Len(s) < 4 THEN [ok |-> FALSE, bytes |-> <<>>]
    ELSE IF Len(s) = 4 /\ s[3] = "=" /\ s[4] = "=" THEN
        IF IsB64(s[1]) /\ IsB64(s[2])
        THEN [ok |-> TRUE,
              bytes |-> <<(Val(s[1]) * 4 + Val(s[2]) \div 16) % 256>>]
        ELSE [ok |-> FALSE, bytes |-> <<>>]
    ELSE IF Len(s) = 4 /\ s[4] = "=" THEN
        IF IsB64(s[1]) /\ IsB64(s[2]) /\ IsB64(s[3])
        THEN [ok |-> TRUE,
              bytes |-> <<(Val(s[1]) * 4 + Val(s[2]) \div 16) % 256,
                          (Val(s[2]) * 16 + Val(s[3]) \div 4) % 256>>]
        ELSE [ok |-> FALSE, bytes |-> <<>>]
    ELSE
        IF \A i \in 1..4 : IsB64(s[i])
        THEN Group(DecodeString(Drop(s, 4)))
        ELSE [ok |-> FALSE, bytes |-> <<>>]

----------------------------------------------------------------------------
(* net/url and net/http: building the request                              *)

Letters == {Printable[i] : i \in (34..59) \cup (66..91)}

DecimalDigits == {DigitSym[i] : i \in 1..10}

\* strings.ToLower on one character.
ToLower(c) ==
    LET i == IndexOf(Printable, c)
    IN  IF i \in 34..59 THEN Printable[i + 32] ELSE c

LowerStr(s) == [i \in 1..Len(s) |-> ToLower(s[i])]

\* strings.Cut(s, sep) for a one-character separator.
Cut(s, sep) ==
    LET i == IndexOf(s, sep)
    IN  IF i = 0 THEN [before |-> s, after |-> <<>>, found |-> FALSE]
        ELSE [before |-> Take(s, i - 1), after |-> Drop(s, i), found |-> TRUE]

\* strings.LastIndex for one character, 1-based, or 0.
LastIndexOf(s, c) ==
    IF \E i \in 1..Len(s) : s[i] = c
    THEN CHOOSE i \in 1..Len(s) : s[i] = c /\ \A j \in (i + 1)..Len(s) : s[j] # c
    ELSE 0

\* url.getScheme: the characters before the first ":" when they form a scheme.
getScheme(rawURL) ==
    LET Stops(i) == ~(rawURL[i] \in Letters)
                    /\ ~(i > 1 /\ rawURL[i] \in DecimalDigits \cup {"+", "-", "."})
        StopAt(i) ==
            IF rawURL[i] # ":"
            THEN [ok |-> TRUE, scheme |-> <<>>, rest |-> rawURL]
            ELSE IF i = 1
            THEN [ok |-> FALSE, scheme |-> <<>>, rest |-> <<>>]
            ELSE [ok |-> TRUE, scheme |-> Take(rawURL, i - 1),
                  rest |-> Drop(rawURL, i)]
    IN  IF \E i \in 1..Len(rawURL) : Stops(i)
        THEN StopAt(CHOOSE k \in 1..Len(rawURL) :
                        Stops(k) /\ \A j \in 1..(k - 1) : ~Stops(j))
        ELSE [ok |-> TRUE, scheme |-> <<>>, rest |-> rawURL]

\* A port that is taken without a look at its characters.
validOptionalPortUnchecked(port) == TRUE

\* url.validOptionalPort: "" or ":" followed by digits.
validOptionalPort(port) ==
    \/ port = <<>>
    \/ /\ port[1] = ":"
       /\ \A i \in 2..Len(port) : port[i] \in DecimalDigits

\* url.parseAuthority / parseHost for an authority without userinfo and
\* without an IP literal: only the port is checked.
parseHost(host) ==
    LET i == LastIndexOf(host, ":")
    IN  IF i # 0 /\ ~validOptionalPort(Drop(host, i - 1))
        THEN [ok |-> FALSE, host |-> <<>>]
        ELSE [ok |-> TRUE, host |-> host]

BadURL == [ok |-> FALSE, Scheme |-> <<>>, Opaque |-> <<>>, Host |-> <<>>,
           Path |-> <<>>, RawQuery |-> <<>>, Fragment |-> <<>>]

\* url.Parse: fragment, scheme, query, authority, path, in this order.  The
\* strings of the model hold no control character, no "%" escape, no "@" and
\* no "[", so those checks of the library are not stated.
Parse(rawURL) ==
    LET \* The rest after the scheme and the query is cut: authority and path.
        Hier(scheme, rest, query, frag) ==
            LET Authority(auth, path) ==
                    LET Hosted(host) ==
                            IF ~host.ok THEN BadURL
                            ELSE [ok |-> TRUE, Scheme |-> scheme, Opaque |-> <<>>,
                                  Host |-> host.host, Path |-> path,
                                  RawQuery |-> query, Fragment |-> frag]
                    IN  Hosted(parseHost(auth))
                Slashed(afterSl, slash) ==
                    IF slash = 0 THEN Authority(afterSl, <<>>)
                    ELSE Authority(Take(afterSl, slash - 1), Drop(afterSl, slash - 1))
            IN
            IF ~HasPrefix(rest, <<"/">>) /\ scheme # <<>> THEN
                [ok |-> TRUE, Scheme |-> scheme, Opaque |-> rest, Host |-> <<>>,
                 Path |-> <<>>, RawQuery |-> query, Fragment |-> frag]
            ELSE IF ~HasPrefix(rest, <<"/">>)
                    /\ Contains(Cut(rest, "/").before, <<":">>) THEN BadURL
            ELSE IF HasPrefix(rest, <<"/", "/">>) THEN
                Slashed(Drop(rest, 2), IndexOf(Drop(rest, 2), "/"))
            ELSE [ok |-> TRUE, Scheme |-> scheme, Opaque |-> <<>>, Host |-> <<>>,
                  Path |-> rest, RawQuery |-> query, Fragment |-> frag]
        \* The query is cut from what follows the scheme; a lone final "?"
        \* gives an empty query.
        Query(scheme, rest, frag) ==
            IF Len(rest) > 0 /\ rest[Len(rest)] = "?"
               /\ Cardinality({i \in 1..Len(rest) : rest[i] = "?"}) = 1
            THEN Hier(scheme, Take(rest, Len(rest) - 1), <<>>, frag)
            ELSE Hier(scheme, Cut(rest, "?").before, Cut(rest, "?").after, frag)
        Scheme(u, sch, frag) ==
            IF ~sch.ok THEN BadURL
            ELSE IF u = <<"*">> THEN
                [ok |-> TRUE, Scheme |-> <<>>, Opaque |-> <<>>, Host |-> <<>>,
                 Path |-> u, RawQuery |-> <<>>, Fragment |-> frag]
            ELSE Query(LowerStr(sch.scheme), sch.rest, frag)
        Fragment(cutF) == Scheme(cutF.before, getScheme(cutF.before), cutF.after)
    IN  Fragment(Cut(rawURL, "#"))

\* http.NewRequestWithContext for a valid method and a non-nil context: the
\* URL is parsed, the header set is empty.  [ok, req].
NewRequestWithContext(method, url, body) ==
    LET u == Parse(url)
    IN  [ok  |-> u.ok,
         req |-> [Method |-> method, URL |-> u, Proto |-> "HTTP/1.1",
                  Host |-> u.Host, Header |-> <<>>, Body |-> body]]

\* req.Header.Set(key, value): a header is a sequence of <<key, value>>
\* pairs, one per key.
HeaderSet(h, key, value) ==
    IF \E i \in 1..Len(h) : h[i][1] = key
    THEN [i \in 1..Len(h) |-> IF h[i][1] = key THEN <<key, value>> ELSE h[i]]
    ELSE Append(h, <<key, value>>)

HeaderHas(h, key) == \E i \in 1..Len(h) : h[i][1] = key

\* req.Header.Get(key): the value, or "" when the key is absent.
HeaderGet(h, key) ==
    IF HeaderHas(h, key)
    THEN h[CHOOSE i \in 1..Len(h) : h[i][1] = key][2]
    ELSE <<>>

----------------------------------------------------------------------------
(* encoding/json: the syntax check and the value read from a body          *)

WhiteSpace == {" ", "\t", "\n", "\r"}

\* The first index from i on that holds no white space (Len(s) + 1 at the end).
RECURSIVE SkipWS(_, _)
SkipWS(s, i) ==
    IF i <= Len(s) /\ s[i] \in WhiteSpace THEN SkipWS(s, i + 1) ELSE i

\* The first index from i on that holds no decimal digit.
RECURSIVE SkipDigits(_, _)
SkipDigits(s, i) ==
    IF i <= Len(s) /\ s[i] \in DecimalDigits THEN SkipDigits(s, i + 1) ELSE i

At(s, i) == IF i >= 1 /\ i <= Len(s) THEN s[i] ELSE "EOF"

NoValue == [ok |-> FALSE, next |-> 0, v |-> [t |-> "null"]]

\* The characters of a string literal from s[i] to the closing quote, the
\* escapes decoded.  A \uXXXX outside the printable ASCII characters is kept
\* as the one symbol "U+"; a control character that is not escaped ends
\* the scan with an error.
RECURSIVE ScanChars(_, _, _)
ScanChars(s, i, acc) ==
    LET Hex(ch) ==
            IndexOf(<<"0", "1", "2", "3", "4", "5", "6", "7", "8", "9", "a",
                      "b", "c", "d", "e", "f">>, ToLower(ch)) - 1
        Unicode(a, b, c, d) ==
            IF a < 0 \/ b < 0 \/ c < 0 \/ d < 0 THEN NoValue
            ELSE ScanChars(s, i + 6,
                           Append(acc,
                                  IF a = 0 /\ b = 0 /\ c * 16 + d >= 32
                                     /\ c * 16 + d <= 126
                                  THEN Chr(c * 16 + d) ELSE "U+"))
        Escape(e) ==
            CASE e \in {"\"", "\\", "/"} -> ScanChars(s, i + 2, Append(acc, e))
              [] e = "n" -> ScanChars(s, i + 2, Append(acc, "\n"))
              [] e = "t" -> ScanChars(s, i + 2, Append(acc, "\t"))
              [] e = "r" -> ScanChars(s, i + 2, Append(acc, "\r"))
              [] e = "f" -> ScanChars(s, i + 2, Append(acc, "\f"))
              [] e = "b" -> ScanChars(s, i + 2, Append(acc, "backspace"))
              [] e = "u" -> Unicode(Hex(At(s, i + 2)), Hex(At(s, i + 3)),
                                    Hex(At(s, i + 4)), Hex(At(s, i + 5)))
              [] OTHER -> NoValue
        Char(ch) ==
            CASE ch = "EOF" -> NoValue
              [] ch = "\"" ->
                    [ok |-> TRUE, next |-> i + 1, v |-> [t |-> "str", s |-> acc]]
              [] ch = "\\" -> Escape(At(s, i + 1))
              [] ch \in {"\n", "\t", "\r", "\f", "backspace"} -> NoValue
              [] OTHER -> ScanChars(s, i + 1, Append(acc, ch))
    IN  Char(At(s, i))

\* A string literal starting at the quote s[i].
ScanString(s, i) == ScanChars(s, i + 1, <<>>)

\* A number starting at s[i]: -? (0 | [1-9][0-9]*) (. [0-9]+)? ([eE] [+-]? [0-9]+)?
ScanNumber(s, i) ==
    LET \* i3: after the fraction; the exponent follows.
        Exponent(i3) ==
            LET Digs(i4, i5) ==
                    IF i5 > i4
                    THEN [ok |-> TRUE, next |-> i5,
                          v |-> [t |-> "num", lit |-> SubSeq(s, i, i5 - 1)]]
                    ELSE NoValue
                Signed(i4) == Digs(i4, SkipDigits(s, i4))
            IN  IF At(s, i3) \in {"e", "E"}
                THEN Signed(IF At(s, i3 + 1) \in {"+", "-"} THEN i3 + 2 ELSE i3 + 1)
                ELSE [ok |-> TRUE, next |-> i3,
                      v |-> [t |-> "num", lit |-> SubSeq(s, i, i3 - 1)]]
        \* i2: after the integer part; the fraction follows.
        Fraction(i2) ==
            LET Digs(i3) == IF i3 > i2 + 1 THEN Exponent(i3) ELSE NoValue
            IN  IF At(s, i2) = "." THEN Digs(SkipDigits(s, i2 + 1))
                ELSE Exponent(i2)
        \* i1: after the sign; the integer part follows.
        Integer(i1) ==
            LET Digs(i2) == IF i2 > i1 THEN Fraction(i2) ELSE NoValue
            IN  Digs(IF At(s, i1) = "0" THEN i1 + 1 ELSE SkipDigits(s, i1))
    IN  Integer(IF At(s, i) = "-" THEN i + 1 ELSE i)

ScanLiteral(s, i, word, v) ==
    IF SubSeq(s, i, Min(Len(s), i + Len(word) - 1)) = word
    THEN [ok |-> TRUE, next |-> i + Len(word), v |-> v]
    ELSE NoValue

RECURSIVE ScanValue(_, _), ScanMembers(_, _, _), ScanElements(_, _, _)

\* The JSON value starting at s[i] (white space already skipped).
ScanValue(s, i) ==
    LET Object(j) ==
            IF At(s, j) = "}"
            THEN [ok |-> TRUE, next |-> j + 1, v |-> [t |-> "obj", members |-> <<>>]]
            ELSE ScanMembers(s, j, <<>>)
        Array(j) ==
            IF At(s, j) = "]"
            THEN [ok |-> TRUE, next |-> j + 1, v |-> [t |-> "arr", elems |-> <<>>]]
            ELSE ScanElements(s, j, <<>>)
        Value(c) ==
            CASE c = "{" -> Object(SkipWS(s, i + 1))
              [] c = "[" -> Array(SkipWS(s, i + 1))
              [] c = "\"" -> ScanString(s, i)
              [] c = "-" \/ c \in DecimalDigits -> ScanNumber(s, i)
              [] c = "n" -> ScanLiteral(s, i, <<"n", "u", "l", "l">>, [t |-> "null"])
              [] c = "t" -> ScanLiteral(s, i, <<"t", "r", "u", "e">>,
                                        [t |-> "bool", b |-> TRUE])
              [] c = "f" -> ScanLiteral(s, i, <<"f", "a", "l", "s", "e">>,
                                        [t |-> "bool", b |-> FALSE])
              [] OTHER -> NoValue
    IN  Value(At(s, i))

\* The members of an object from the key at s[i] on, after those in acc.
ScanMembers(s, i, acc) ==
    LET Sep(key, val, sep) ==
            IF ~val.ok THEN NoValue
            ELSE IF At(s, sep) = "}"
            THEN [ok |-> TRUE, next |-> sep + 1,
                  v |-> [t |-> "obj",
                         members |-> Append(acc, [key |-> key.v.s, val |-> val.v])]]
            ELSE IF At(s, sep) = ","
            THEN ScanMembers(s, SkipWS(s, sep + 1),
                             Append(acc, [key |-> key.v.s, val |-> val.v]))
            ELSE NoValue
        Val(key, val) == Sep(key, val, SkipWS(s, val.next))
        Colon(key, colon) ==
            Val(key, IF key.ok /\ At(s, colon) = ":"
                     THEN ScanValue(s, SkipWS(s, colon + 1)) ELSE NoValue)
        Key(key) == Colon(key, SkipWS(s, key.next))
    IN  Key(IF At(s, i) = "\"" THEN ScanString(s, i) ELSE NoValue)

\* The elements of an array from the value at s[i] on, after those in acc.
ScanElements(s, i, acc) ==
    LET Sep(val, sep) ==
            IF ~val.ok THEN NoValue
            ELSE IF At(s, sep) = "]"
            THEN [ok |-> TRUE, next |-> sep + 1,
                  v |-> [t |-> "arr", elems |-> Append(acc, val.v)]]
            ELSE IF At(s, sep) = ","
            THEN ScanElements(s, SkipWS(s, sep + 1), Append(acc, val.v))
            ELSE NoValue
        Val(val) == Sep(val, SkipWS(s, val.next))
    IN  Val(ScanValue(s, i))

\* json.checkValid and the value of the text: one value between white space,
\* and nothing else.
ParseJSON(data) ==
    LET Whole(val) ==
            IF val.ok /\ SkipWS(data, val.next) = Len(data) + 1
            THEN [ok |-> TRUE, v |-> val.v]
            ELSE [ok |-> FALSE, v |-> [t |-> "null"]]
    IN  Whole(ScanValue(data, SkipWS(data, 1)))

----------------------------------------------------------------------------
(* encoding/json: storing a value into a Go variable                       *)

\* Go types: string, int64, float64, []elem and struct.  A struct type lists
\* its fields as [name, key, type], key being the json tag.
TString == [kind |-> "string"]

TInt64 == [kind |-> "int64"]

TFloat64 == [kind |-> "float64"]

TSlice(elem) == [kind |-> "slice", elem |-> elem]

TStruct(fields) == [kind |-> "struct", fields |-> fields]

FieldNames(T) == {T.fields[i].name : i \in 1..Len(T.fields)}

FieldOf(T, name) == T.fields[CHOOSE i \in 1..Len(T.fields) : T.fields[i].name = name]

\* A float64 is kept as the decimal mant * 10^exp it was read from, mant not
\* a multiple of ten: equal for equal numbers, whatever the spelling.
RECURSIVE NormFloat(_, _)
NormFloat(mant, exp) ==
    IF mant = 0 THEN [mant |-> 0, exp |-> 0]
    ELSE IF mant % 10 = 0 THEN NormFloat(mant \div 10, exp + 1)
    ELSE [mant |-> mant, exp |-> exp]

\* The zero value of a type (a nil slice, an empty string, 0).
RECURSIVE Zero(_)
Zero(T) ==
    CASE T.kind = "string"  -> <<>>
      [] T.kind = "int64"   -> 0
      [] T.kind = "float64" -> NormFloat(0, 0)
      [] T.kind = "slice"   -> [nil |-> TRUE, elems |-> <<>>]
      [] T.kind = "struct"  -> [n \in FieldNames(T) |-> Zero(FieldOf(T, n).type)]

\* The number a run of decimal digits spells.
RECURSIVE DigitsValue(_)
DigitsValue(d) ==
    IF d = <<>> THEN 0
    ELSE DigitsValue(Take(d, Len(d) - 1)) * 10 + (IndexOf(DigitSym, d[Len(d)]) - 1)

\* strconv.ParseInt(lit, 10, 64) on a JSON number: [ok, n].  Literals of the
\* model are short, so the range check never fails.
ParseInt(lit) ==
    LET Unsigned(neg, body) ==
            IF \A i \in 1..Len(body) : body[i] \in DecimalDigits
            THEN [ok |-> TRUE,
                  n |-> IF neg THEN 0 - DigitsValue(body) ELSE DigitsValue(body)]
            ELSE [ok |-> FALSE, n |-> 0]
    IN  IF lit[1] = "-" THEN Unsigned(TRUE, Tail(lit)) ELSE Unsigned(FALSE, lit)

\* strconv.ParseFloat on a JSON number.
ParseFloat(lit) ==
    LET Value(neg, intS, fracS, expN) ==
            NormFloat(IF neg THEN 0 - DigitsValue(intS \o fracS)
                      ELSE DigitsValue(intS \o fracS),
                      expN - Len(fracS))
        Mantissa(neg, mantS, dot, expN) ==
            IF dot = 0 THEN Value(neg, mantS, <<>>, expN)
            ELSE Value(neg, Take(mantS, dot - 1), Drop(mantS, dot), expN)
        Exp(expS) ==
            IF expS = <<>> THEN 0
            ELSE IF expS[1] = "-" THEN 0 - DigitsValue(Tail(expS))
            ELSE IF expS[1] = "+" THEN DigitsValue(Tail(expS))
            ELSE DigitsValue(expS)
        Split(neg, body, ePos) ==
            IF ePos = 0 THEN Mantissa(neg, body, IndexOf(body, "."), 0)
            ELSE Mantissa(neg, Take(body, ePos - 1),
                          IndexOf(Take(body, ePos - 1), "."), Exp(Drop(body, ePos)))
        Unsigned(neg, body) ==
            Split(neg, body,
                  IF IndexOf(body, "e") # 0 THEN IndexOf(body, "e")
                  ELSE IndexOf(body, "E"))
    IN  IF lit[1] = "-" THEN Unsigned(TRUE, Tail(lit)) ELSE Unsigned(FALSE, lit)

\* The index of the struct field a key names: the field whose json tag is
\* the key, else the first field whose tag equals the key when case is
\* folded, else 0.
FieldIndex(T, key) ==
    LET n == Len(T.fields)
    IN  IF \E i \in 1..n : T.fields[i].key = key
        THEN CHOOSE i \in 1..n : T.fields[i].key = key
        ELSE IF \E i \in 1..n : LowerStr(T.fields[i].key) = LowerStr(key)
        THEN CHOOSE i \in 1..n :
                 /\ LowerStr(T.fields[i].key) = LowerStr(key)
                 /\ \A j \in 1..(i - 1) : LowerStr(T.fields[j].key) # LowerStr(key)
        ELSE 0

RECURSIVE Store(_, _, _), StoreMembers(_, _, _, _), StoreElements(_, _, _, _)

\* decodeState.value: store JSON value v into a variable of type T holding
\* cur.  [val, err]: the variable afterwards, and whether an
\* UnmarshalTypeError was saved (decoding goes on after one).
Store(v, T, cur) ==
    LET Parsed(n) == IF n.ok THEN [val |-> n.n, err |-> FALSE]
                     ELSE [val |-> cur, err |-> TRUE]
    IN
    CASE v.t = "null" ->
            IF T.kind = "slice"
            THEN [val |-> Zero(T), err |-> FALSE]
            ELSE [val |-> cur, err |-> FALSE]
      [] v.t = "str" ->
            IF T.kind = "string"
            THEN [val |-> v.s, err |-> FALSE]
            ELSE [val |-> cur, err |-> TRUE]
      [] v.t = "num" ->
            IF T.kind = "int64" THEN Parsed(ParseInt(v.lit))
            ELSE IF T.kind = "float64"
            THEN [val |-> ParseFloat(v.lit), err |-> FALSE]
            ELSE [val |-> cur, err |-> TRUE]
      [] v.t = "bool" -> [val |-> cur, err |-> TRUE]
      [] v.t = "arr" ->
            IF T.kind = "slice"
            THEN StoreElements(v.elems, T.elem, <<>>, FALSE)
            ELSE [val |-> cur, err |-> TRUE]
      [] v.t = "obj" ->
            IF T.kind = "struct"
            THEN StoreMembers(v.members, T, cur, FALSE)
            ELSE [val |-> cur, err |-> TRUE]

\* decodeState.object on a struct: the members in order, a later member for
\* the same field storing over an earlier one, an unknown key skipped.
StoreMembers(members, T, cur, err) ==
    LET Stored(f, r) ==
            StoreMembers(Tail(members), T, [cur EXCEPT ![f.name] = r.val],
                         err \/ r.err)
        Field(m, f) == Stored(f, Store(m.val, f.type, cur[f.name]))
        Member(m, i) ==
            IF i = 0 THEN StoreMembers(Tail(members), T, cur, err)
            ELSE Field(m, T.fields[i])
    IN  IF members = <<>> THEN [val |-> cur, err |-> err]
        ELSE Member(Head(members), FieldIndex(T, Head(members).key))

\* decodeState.array putting each element before those already stored.
StoreElementsInFront(elems, E, acc, err) ==
    LET Stored(r) ==
            StoreElements(Tail(elems), E, <<r.val>> \o acc, err \/ r.err)
    IN  IF elems = <<>> THEN [val |-> [nil |-> FALSE, elems |-> acc], err |-> err]
        ELSE Stored(Store(Head(elems), E, Zero(E)))

\* decodeState.array on a slice: one element per value, in order; an empty
\* array gives an empty slice that is not nil.
StoreElements(elems, E, acc, err) ==
    LET Stored(r) ==
            StoreElements(Tail(elems), E, Append(acc, r.val), err \/ r.err)
    IN  IF elems = <<>> THEN [val |-> [nil |-> FALSE, elems |-> acc], err |-> err]
        ELSE Stored(Store(Head(elems), E, Zero(E)))

\* json.Unmarshal without its syntax check: the variable is left alone and
\* no error returned.
UnmarshalUnchecked(data, T, cur) ==
    LET Stored(r) == [val |-> r.val, err |-> IF r.err THEN "type" ELSE ""]
        Checked(p) ==
            IF ~p.ok THEN [val |-> cur, err |-> ""]
            ELSE Stored(Store(p.v, T, cur))
    IN  Checked(ParseJSON(data))

\* json.Unmarshal(data, &x) for x of type T holding cur: [val, err], err
\* being "" (nil), "syntax" (the text is not JSON; x is left alone) or "type".
Unmarshal(data, T, cur) ==
    LET Stored(r) == [val |-> r.val, err |-> IF r.err THEN "type" ELSE ""]
        Checked(p) ==
            IF ~p.ok THEN [val |-> cur, err |-> "syntax"]
            ELSE Stored(Store(p.v, T, cur))
    IN  Checked(ParseJSON(data))

----------------------------------------------------------------------------
(* encoding/json: the JSON text of a Go value, as the test server writes it *)

\* A string between quotes: the quote and the backslash escaped, <, > and &
\* written as \u003c, \u003e and \u0026, newline, return and tab as \n, \r
\* and \t.  The strings encoded hold no other control character.
RECURSIVE EncodeString(_)
EncodeString(s) ==
    LET Escaped(ch) ==
            CASE ch = "\"" -> <<"\\", "\"">>
              [] ch = "\\" -> <<"\\", "\\">>
              [] ch = "<" -> <<"\\", "u", "0", "0", "3", "c">>
              [] ch = ">" -> <<"\\", "u", "0", "0", "3", "e">>
              [] ch = "&" -> <<"\\", "u", "0", "0", "2", "6">>
              [] ch = "\n" -> <<"\\", "n">>
              [] ch = "\r" -> <<"\\", "r">>
              [] ch = "\t" -> <<"\\", "t">>
              [] OTHER -> <<ch>>
    IN  IF s = <<>> THEN <<>> ELSE Escaped(Head(s)) \o EncodeString(Tail(s))

\* A float64 mant * 10^exp in the shortest text that reads back as the same
\* number: digits with a decimal point, or with an exponent when the number
\* is below 1e-6 or from 1e21 on.
FmtFloat(f) ==
    LET Zeros(n) == [i \in 1..n |-> "0"]
        Sign == IF f.mant < 0 THEN <<"-">> ELSE <<>>
        Exponent(e) ==
            IF e < 0 THEN <<"e", "-">> \o Digits(0 - e) ELSE <<"e", "+">> \o Digits(e)
        Fmt(d) ==
            IF Len(d) + f.exp <= -6 \/ Len(d) + f.exp >= 22
            THEN <<d[1]>> \o (IF Len(d) > 1 THEN <<".">> \o Tail(d) ELSE <<>>)
                 \o Exponent(Len(d) + f.exp - 1)
            ELSE IF f.exp >= 0 THEN d \o Zeros(f.exp)
            ELSE IF Len(d) > 0 - f.exp
            THEN Take(d, Len(d) + f.exp) \o <<".">> \o Drop(d, Len(d) + f.exp)
            ELSE <<"0", ".">> \o Zeros(0 - f.exp - Len(d)) \o d
    IN  IF f.mant = 0 THEN <<"0">>
        ELSE Sign \o Fmt(Digits(IF f.mant < 0 THEN 0 - f.mant ELSE f.mant))

\* json.Marshal of a value of type T: struct fields in the order of the
\* type under their json tags, a nil slice as null.
RECURSIVE Marshal(_, _), MarshalList(_, _, _)
Marshal(v, T) ==
    CASE T.kind = "string"  -> <<"\"">> \o EncodeString(v) \o <<"\"">>
      [] T.kind = "int64"   -> FmtInt(v)
      [] T.kind = "float64" -> FmtFloat(v)
      [] T.kind = "slice"   ->
            IF v.nil THEN <<"n", "u", "l", "l">>
            ELSE <<"[">>
                 \o MarshalList([i \in 1..Len(v.elems) |-> Marshal(v.elems[i], T.elem)],
                                1, <<>>)
                 \o <<"]">>
      [] T.kind = "struct"  ->
            <<"{">>
            \o MarshalList([i \in 1..Len(T.fields) |->
                               <<"\"">> \o T.fields[i].key \o <<"\"", ":">>
                               \o Marshal(v[T.fields[i].name], T.fields[i].type)],
                           1, <<>>)
            \o <<"}">>

\* The texts of a list from the i-th on, with commas between them.
MarshalList(texts, i, acc) ==
    IF i > Len(texts) THEN acc
    ELSE MarshalList(texts, i + 1,
                     (IF i = 1 THEN acc ELSE acc \o <<",">>) \o texts[i])

\* json.NewEncoder(w).Encode(v): the text and a newline.
Encode(v, T) == Marshal(v, T) \o <<"\n">>

----------------------------------------------------------------------------
(* The response types                                                      *)

GasFeeLevel ==
    TStruct(<<
      [name |-> "SuggestedMaxPriorityFeePerGas", type |-> TString,
       key |-> <<"s", "u", "g", "g", "e", "s", "t", "e", "d", "M", "a", "x",
               "P", "r", "i", "o", "r", "i", "t", "y", "F", "e", "e", "P", "e",
               "r", "G", "a", "s">>],
      [name |-> "SuggestedMaxFeePerGas", type |-> TString,
       key |-> <<"s", "u", "g", "g", "e", "s", "t", "e", "d", "M", "a", "x",
               "F", "e", "e", "P", "e", "r", "G", "a", "s">>],
      [name |-> "MinWaitTimeEstimate", type |-> TInt64,
       key |-> <<"m", "i", "n", "W", "a", "i", "t", "T", "i", "m", "e", "E",
               "s", "t", "i", "m", "a", "t", "e">>],
      [name |-> "MaxWaitTimeEstimate", type |-> TInt64,
       key |-> <<"m", "a", "x", "W", "a", "i", "t", "T", "i", "m", "e", "E",
               "s", "t", "i", "m", "a", "t", "e">>]>>)

SuggestedGasFees ==
    TStruct(<<
      [name |-> "Low", type |-> GasFeeLevel,
       key |-> <<"l", "o", "w">>],
      [name |-> "Medium", type |-> GasFeeLevel,
       key |-> <<"m", "e", "d", "i", "u", "m">>],
      [name |-> "High", type |-> GasFeeLevel,
       key |-> <<"h", "i", "g", "h">>],
      [name |-> "EstimatedBaseFee", type |-> TString,
       key |-> <<"e", "s", "t", "i", "m", "a", "t", "e", "d", "B", "a", "s",
               "e", "F", "e", "e">>],
      [name |-> "NetworkCongestion", type |-> TFloat64,
       key |-> <<"n", "e", "t", "w", "o", "r", "k", "C", "o", "n", "g", "e",
               "s", "t", "i", "o", "n">>],
      [name |-> "LatestPriorityFeeRange", type |-> TSlice(TString),
       key |-> <<"l", "a", "t", "e", "s", "t", "P", "r", "i", "o", "r", "i",
               "t", "y", "F", "e", "e", "R", "a", "n", "g", "e">>],
      [name |-> "HistoricalPriorityFeeRange", type |-> TSlice(TString),
       key |-> <<"h", "i", "s", "t", "o", "r", "i", "c", "a", "l", "P", "r",
               "i", "o", "r", "i", "t", "y", "F", "e", "e", "R", "a", "n", "g",
               "e">>],
      [name |-> "HistoricalBaseFeeRange", type |-> TSlice(TString),
       key |-> <<"h", "i", "s", "t", "o", "r", "i", "c", "a", "l", "B", "a",
               "s", "e", "F", "e", "e", "R", "a", "n", "g", "e">>],
      [name |-> "PriorityFeeTrend", type |-> TString,
       key |-> <<"p", "r", "i", "o", "r", "i", "t", "y", "F", "e", "e", "T",
               "r", "e", "n", "d">>],
      [name |-> "BaseFeeTrend", type |-> TString,
       key |-> <<"b", "a", "s", "e", "F", "e", "e", "T", "r", "e", "n", "d">>]>>)

BaseFeeHistory == TSlice(TString)

BaseFeePercentile ==
    TStruct(<<
      [name |-> "BaseFeePercentile", type |-> TString,
       key |-> <<"b", "a", "s", "e", "F", "e", "e", "P", "e", "r", "c", "e",
               "n", "t", "i", "l", "e">>]>>)

BusyThreshold ==
    TStruct(<<
      [name |-> "BusyThreshold", type |-> TString,
       key |-> <<"b", "u", "s", "y", "T", "h", "r", "e", "s", "h", "o", "l",
               "d">>]>>)

----------------------------------------------------------------------------
(* The endpoint paths                                                      *)

\* "/networks/"
sNetworks == <<"/", "n", "e", "t", "w", "o", "r", "k", "s", "/">>

\* "/v3/"
sV3 == <<"/", "v", "3", "/">>

\* fmt.Sprintf("/networks/%d/" + name, chainID), or
\* fmt.Sprintf("/v3/%s/networks/%d/" + name, c.apiKey, chainID).
suggestedGasFeesEndpoint(c, chainID) ==
    IF hasSecret(c)
    THEN sNetworks \o FmtInt(chainID)
         \o <<"/", "s", "u", "g", "g", "e", "s", "t", "e", "d", "G", "a", "s",
            "F", "e", "e", "s">>
    ELSE sV3 \o c.apiKey \o sNetworks \o FmtInt(chainID)
         \o <<"/", "s", "u", "g", "g", "e", "s", "t", "e", "d", "G", "a", "s",
            "F", "e", "e", "s">>

\* GetBaseFeeHistory choosing the /v3/{apiKey} path whatever the secret.
baseFeeHistoryEndpointV3(c, chainID) ==
    sV3 \o c.apiKey \o sNetworks \o FmtInt(chainID)
    \o <<"/", "b", "a", "s", "e", "F", "e", "e", "H", "i", "s", "t", "o",
       "r", "y">>

baseFeeHistoryEndpoint(c, chainID) ==
    IF hasSecret(c)
    THEN sNetworks \o FmtInt(chainID)
         \o <<"/", "b", "a", "s", "e", "F", "e", "e", "H", "i", "s", "t", "o",
            "r", "y">>
    ELSE sV3 \o c.apiKey \o sNetworks \o FmtInt(chainID)
         \o <<"/", "b", "a", "s", "e", "F", "e", "e", "H", "i", "s", "t", "o",
            "r", "y">>

baseFeePercentileEndpoint(c, chainID) ==
    IF hasSecret(c)
    THEN sNetworks \o FmtInt(chainID)
         \o <<"/", "b", "a", "s", "e", "F", "e", "e", "P", "e", "r", "c", "e",
            "n", "t", "i", "l", "e">>
    ELSE sV3 \o c.apiKey \o sNetworks \o FmtInt(chainID)
         \o <<"/", "b", "a", "s", "e", "F", "e", "e", "P", "e", "r", "c", "e",
            "n", "t", "i", "l", "e">>

\* GetBusyThreshold choosing the /networks path whatever the secret.
busyThresholdEndpointNetworks(c, chainID) ==
    sNetworks \o FmtInt(chainID)
    \o <<"/", "b", "u", "s", "y", "T", "h", "r", "e", "s", "h", "o", "l",
       "d">>

busyThresholdEndpoint(c, chainID) ==
    IF hasSecret(c)
    THEN sNetworks \o FmtInt(chainID)
         \o <<"/", "b", "u", "s", "y", "T", "h", "r", "e", "s", "h", "o", "l",
            "d">>
    ELSE sV3 \o c.apiKey \o sNetworks \o FmtInt(chainID)
         \o <<"/", "b", "u", "s", "y", "T", "h", "r", "e", "s", "h", "o", "l",
            "d">>

----------------------------------------------------------------------------
(* Errors, results and the diagnostic output                               *)

\* A nil error, and fmt.Errorf(text + "%w", cause) / fmt.Errorf(text...): the
\* message is the text followed by the message of the cause; wraps names
\* the cause ("" when the error wraps nothing).
NilError == [nil |-> TRUE, msg |-> <<>>, wraps |-> ""]

Errorf(msg, wraps) == [nil |-> FALSE, msg |-> msg, wraps |-> wraps]

\* What an endpoint method returns beside the error: a pointer to the
\* decoded struct, or for GetBaseFeeHistory the slice itself.
NilPointer == [nil |-> TRUE]

PointerTo(val) == [nil |-> FALSE, val |-> val]

NilSlice == Zero(BaseFeeHistory)

\* "application/json"
sApplicationJSON == <<"a", "p", "p", "l", "i", "c", "a", "t", "i", "o", "n", "/", "j", "s", "o", "n">>

\* url.URL.String for the URLs Parse gives.
URLString(u) ==
    (IF u.Scheme # <<>> THEN u.Scheme \o <<":">> ELSE <<>>)
    \o (IF u.Opaque # <<>> THEN u.Opaque
        ELSE (IF (u.Scheme # <<>> \/ u.Host # <<>>) /\ (u.Host # <<>> \/ u.Path # <<>>)
              THEN <<"/", "/">> \o u.Host ELSE <<>>)
             \o (IF u.Path # <<>> /\ u.Path[1] # "/" /\ u.Host # <<>>
                 THEN <<"/">> ELSE <<>>)
             \o u.Path)
    \o (IF u.RawQuery # <<>> THEN <<"?">> \o u.RawQuery ELSE <<>>)
    \o (IF u.Fragment # <<>> THEN <<"#">> \o u.Fragment ELSE <<>>)

\* A mask that keeps the ends of a value of 20 characters too.
maskAuthHeaderFrom20(auth) ==
    IF Len(auth) >= 20
    THEN Take(auth, 10) \o <<".", ".", ".">> \o Drop(auth, Len(auth) - 7)
    ELSE <<"*", "*", "*">>

maskAuthHeader(auth) ==
    IF Len(auth) > 20
    THEN Take(auth, 10) \o <<".", ".", ".">> \o Drop(auth, Len(auth) - 7)
    ELSE <<"*", "*", "*">>

\* One log.Printf: the text written to the process-wide logger.  A fixed
\* piece of a format string is one symbol.
LogLine(text) == [ev |-> "log", text |-> text]

\* logRequest for a request without body.  Go ranges over the header map
\* in no fixed order: the header lines are kept as a set.
logRequest(req) ==
    << LogLine(<<"[DEBUG] ========== HTTP Request ==========">>),
       LogLine(<<"[DEBUG] Method: ", req.Method>>),
       LogLine(<<"[DEBUG] URL: ">> \o URLString(req.URL)),
       LogLine(<<"[DEBUG] Protocol: ", req.Proto>>),
       LogLine(<<"[DEBUG] Host: ">> \o req.Host),
       LogLine(<<"[DEBUG] Headers:">>),
       [ev |-> "log",
        headers |-> { <<"[DEBUG]   ", req.Header[i][1], ": ">>
                      \o (IF req.Header[i][1] = "Authorization"
                          THEN maskAuthHeader(req.Header[i][2])
                          ELSE req.Header[i][2]) : i \in 1..Len(req.Header) }],
       LogLine(<<"[DEBUG] ====================================">>) >>

\* logResponseHeaders: the status (without its reason phrase) and the
\* protocol; the responses of the model carry no header.
logResponseHeaders(resp) ==
    << LogLine(<<"[DEBUG] ========== HTTP Response Headers ==========">>),
       LogLine(<<"[DEBUG] Status: ">> \o FmtInt(resp.StatusCode)),
       LogLine(<<"[DEBUG] Status Code: ">> \o FmtInt(resp.StatusCode)),
       LogLine(<<"[DEBUG] Protocol: ", "HTTP/1.1">>),
       LogLine(<<"[DEBUG] Headers:">>),
       LogLine(<<"[DEBUG] ============================================">>) >>

\* logResponseBody: the body as json.Indent lays it out when it is JSON
\* (indent tells which), the raw text otherwise.
logResponseBody(bodyBytes) ==
    << LogLine(<<"[DEBUG] ========== HTTP Response Body ==========">>),
       IF Len(bodyBytes) > 0
       THEN [ev |-> "log", body |-> bodyBytes, indent |-> ParseJSON(bodyBytes).ok]
       ELSE LogLine(<<"[DEBUG] (empty body)">>),
       LogLine(<<"[DEBUG] ===========================================">>) >>

----------------------------------------------------------------------------
(* One endpoint call, step by step                                         *)

Methods ==
    {"GetSuggestedGasFees", "GetBaseFeeHistory", "GetBaseFeePercentile",
     "GetBusyThreshold"}

\* The path each method builds and the type of its result variable.
EndpointOf(c, method, chainID) ==
    CASE method = "GetSuggestedGasFees"  -> suggestedGasFeesEndpoint(c, chainID)
      [] method = "GetBaseFeeHistory"    -> baseFeeHistoryEndpoint(c, chainID)
      [] method = "GetBaseFeePercentile" -> baseFeePercentileEndpoint(c, chainID)
      [] method = "GetBusyThreshold"     -> busyThresholdEndpoint(c, chainID)

ResultType(method) ==
    CASE method = "GetSuggestedGasFees"  -> SuggestedGasFees
      [] method = "GetBaseFeeHistory"    -> BaseFeeHistory
      [] method = "GetBaseFeePercentile" -> BaseFeePercentile
      [] method = "GetBusyThreshold"     -> BusyThreshold

\* return nil, err
ReturnError(method) ==
    IF method = "GetBaseFeeHistory" THEN NilSlice ELSE NilPointer

\* return &SuggestedGasFees{}, nil: a pointer to a fresh value instead of
\* the decoded one.
ReturnResultFresh(method, result) ==
    IF method = "GetBaseFeeHistory" THEN result
    ELSE PointerTo(Zero(ResultType(method)))

\* return &result, nil (return result, nil for GetBaseFeeHistory)
ReturnResult(method, result) ==
    IF method = "GetBaseFeeHistory" THEN result ELSE PointerTo(result)

NoRequest ==
    [Method |-> "", URL |-> BadURL, Proto |-> "", Host |-> <<>>,
     Header |-> <<>>, Body |-> "nil"]

NoResponse == [StatusCode |-> 0, Body |-> <<>>, closed |-> FALSE]

\* A caller that is in no call.
Idle ==
    [pc |-> "idle", method |-> "", chainID |-> 0, endpoint |-> <<>>,
     req |-> NoRequest, resp |-> NoResponse, cause |-> "",
     result |-> <<>>, ret |-> NilPointer, err |-> NilError, trace |-> <<>>]

\* The head of an endpoint method: the path is chosen by hasSecret and the
\* result variable declared; doJSONRequest is entered with a nil body.
BeginCall(c, method, chainID) ==
    [Idle EXCEPT !.pc = "built", !.method = method, !.chainID = chainID,
                 !.endpoint = EndpointOf(c, method, chainID),
                 !.result = Zero(ResultType(method))]

\* doRequest setting Content-Type only on a request that has a body.
doRequestSendBodyHeaders(c, call) ==
    LET Do(req) ==
            [call EXCEPT !.pc = "sent", !.req = req,
                         !.trace = (IF c.debug THEN logRequest(req) ELSE <<>>)
                                   \o <<[ev |-> "send"]>>]
        SetHeaders(req, auth) ==
            Do([req EXCEPT !.Header =
                    HeaderSet(IF req.Body = "nil" THEN auth
                              ELSE HeaderSet(auth, "Content-Type", sApplicationJSON),
                              "Accept", sApplicationJSON)])
        Created(r) ==
            IF ~r.ok
            THEN [call EXCEPT !.pc = "done",
                              !.err = Errorf(<<"failed to create request: ",
                                               "url.Error">>, "url.Error"),
                              !.ret = ReturnError(call.method)]
            ELSE IF hasSecret(c)
            THEN SetHeaders(r.req, HeaderSet(r.req.Header, "Authorization",
                                             getAuthHeader(c)))
            ELSE SetHeaders(r.req, r.req.Header)
    IN  Created(NewRequestWithContext("GET", c.baseURL \o call.endpoint, "nil"))

\* doRequest up to c.httpClient.Do(req): the request is built from
\* baseURL + endpoint, the headers set, the request logged, and the
\* transport called.  A request that cannot be built ends the call.
doRequestSend(c, call) ==
    LET Do(req) ==
            [call EXCEPT !.pc = "sent", !.req = req,
                         !.trace = (IF c.debug THEN logRequest(req) ELSE <<>>)
                                   \o <<[ev |-> "send"]>>]
        SetHeaders(req, auth) ==
            Do([req EXCEPT !.Header =
                    HeaderSet(HeaderSet(auth, "Content-Type", sApplicationJSON),
                              "Accept", sApplicationJSON)])
        Created(r) ==
            IF ~r.ok
            THEN [call EXCEPT !.pc = "done",
                              !.err = Errorf(<<"failed to create request: ",
                                               "url.Error">>, "url.Error"),
                              !.ret = ReturnError(call.method)]
            ELSE IF hasSecret(c)
            THEN SetHeaders(r.req, HeaderSet(r.req.Header, "Authorization",
                                             getAuthHeader(c)))
            ELSE SetHeaders(r.req, r.req.Header)
    IN  Created(NewRequestWithContext("GET", c.baseURL \o call.endpoint, "nil"))

\* doRequest trying the transport a second time when it failed.
doRequestFailedRetry(c, call, cause) ==
    IF call.cause = ""
    THEN [call EXCEPT !.cause = cause, !.trace = @ \o <<[ev |-> "send"]>>]
    ELSE [call EXCEPT !.pc = "done", !.cause = cause,
                      !.err = Errorf(<<"failed to execute request: ", cause>>, cause),
                      !.ret = ReturnError(call.method)]

\* doRequest returning the logged line for the error when debug is on.
doRequestFailedDebugError(c, call, cause) ==
    [call EXCEPT !.pc = "done", !.cause = cause,
                 !.trace = @ \o (IF c.debug
                                 THEN <<LogLine(<<"[DEBUG] Request failed: ", cause>>)>>
                                 ELSE <<>>),
                 !.err = IF c.debug
                         THEN Errorf(<<"[DEBUG] Request failed: ", cause>>, cause)
                         ELSE Errorf(<<"failed to execute request: ", cause>>, cause),
                 !.ret = ReturnError(call.method)]

\* doRequest formatting the cause with %v: the error wraps nothing.
doRequestFailedUnwrapped(c, call, cause) ==
    [call EXCEPT !.pc = "done", !.cause = cause,
                 !.trace = @ \o (IF c.debug
                                 THEN <<LogLine(<<"[DEBUG] Request failed: ", cause>>)>>
                                 ELSE <<>>),
                 !.err = Errorf(<<"failed to execute request: ", cause>>, ""),
                 !.ret = ReturnError(call.method)]

\* c.httpClient.Do(req) returned an error: doRequest wraps it, doJSONRequest
\* and the method hand it on.
doRequestFailed(c, call, cause) ==
    [call EXCEPT !.pc = "done", !.cause = cause,
                 !.trace = @ \o (IF c.debug
                                 THEN <<LogLine(<<"[DEBUG] Request failed: ", cause>>)>>
                                 ELSE <<>>),
                 !.err = Errorf(<<"failed to execute request: ", cause>>, cause),
                 !.ret = ReturnError(call.method)]

\* c.httpClient.Do(req) returned a response: doRequest logs its headers and
\* returns it; doJSONRequest defers the Close of its body.
doRequestReceived(c, call, status, body) ==
    LET resp == [StatusCode |-> status, Body |-> body, closed |-> FALSE]
    IN  [call EXCEPT !.pc = "received", !.resp = resp,
                     !.trace = @ \o <<[ev |-> "response"]>>
                                 \o (IF c.debug THEN logResponseHeaders(resp)
                                     ELSE <<>>)]

\* doJSONRequest closing the body after the read instead of deferring it.
doJSONRequestReadFailedUnclosed(c, call, cause) ==
    [call EXCEPT !.pc = "done", !.cause = cause,
                 !.trace = @ \o <<[ev |-> "read"]>>,
                 !.err = Errorf(<<"failed to read response body: ", cause>>, cause),
                 !.ret = ReturnError(call.method)]

\* doJSONRequest going on without the body when the read failed; the
\* method returns the result variable as it is.
doJSONRequestReadFailedIgnored(c, call, cause) ==
    [call EXCEPT !.pc = "done", !.cause = cause,
                 !.resp.closed = TRUE,
                 !.trace = @ \o <<[ev |-> "read"], [ev |-> "close"]>>,
                 !.err = NilError,
                 !.ret = ReturnResult(call.method, call.result)]

\* io.ReadAll(resp.Body) failed.
doJSONRequestReadFailed(c, call, cause) ==
    [call EXCEPT !.pc = "done", !.cause = cause,
                 !.resp.closed = TRUE,
                 !.trace = @ \o <<[ev |-> "read"], [ev |-> "close"]>>,
                 !.err = Errorf(<<"failed to read response body: ", cause>>, cause),
                 !.ret = ReturnError(call.method)]

\* doJSONRequest logging the body only of a response it goes on to decode.
doJSONRequestFinishLogOn2xx(c, call) ==
    LET Decoded(read, u) ==
            IF u.err # ""
            THEN [call EXCEPT
                     !.pc = "done", !.resp.closed = TRUE, !.result = u.val,
                     !.trace = @ \o read \o <<[ev |-> "decode"]>>
                                 \o (IF c.debug
                                     THEN <<LogLine(<<"[DEBUG] Failed to unmarshal response: ",
                                                      u.err>>)>>
                                     ELSE <<>>)
                                 \o <<[ev |-> "close"]>>,
                     !.err = Errorf(<<"failed to decode response: ", u.err>>, u.err),
                     !.ret = ReturnError(call.method)]
            ELSE [call EXCEPT
                     !.pc = "done", !.resp.closed = TRUE, !.result = u.val,
                     !.trace = @ \o read \o <<[ev |-> "decode"]>>
                                 \o (IF c.debug
                                     THEN <<[ev |-> "log", parsed |-> u.val]>>
                                     ELSE <<>>)
                                 \o <<[ev |-> "close"]>>,
                     !.err = NilError,
                     !.ret = ReturnResult(call.method, u.val)]
        Checked(respBodyBytes, status, read) ==
            IF status < 200 \/ status >= 300
            THEN [call EXCEPT
                     !.pc = "done", !.resp.closed = TRUE,
                     !.trace = @ \o read \o <<[ev |-> "close"]>>,
                     !.err = Errorf(<<"API request failed with status ">>
                                    \o FmtInt(status) \o <<": ">> \o respBodyBytes, ""),
                     !.ret = ReturnError(call.method)]
            ELSE IF call.method = "doJSONRequest"
            THEN [call EXCEPT
                     !.pc = "done", !.resp.closed = TRUE,
                     !.trace = @ \o read \o <<[ev |-> "close"]>>,
                     !.err = NilError]
            ELSE Decoded(read, Unmarshal(respBodyBytes, ResultType(call.method),
                                         call.result))
        Read(respBodyBytes) ==
            Checked(respBodyBytes, call.resp.StatusCode,
                    <<[ev |-> "read"]>>
                    \o (IF /\ c.debug
                           /\ call.resp.StatusCode >= 200
                           /\ call.resp.StatusCode < 300
                        THEN logResponseBody(respBodyBytes) ELSE <<>>)
                    \o <<[ev |-> "status"]>>)
    IN  Read(call.resp.Body)

\* doJSONRequest decoding the body before it looks at the status.
doJSONRequestFinishDecodeFirst(c, call) ==
    LET Decoded(read, u) ==
            IF u.err # ""
            THEN [call EXCEPT
                     !.pc = "done", !.resp.closed = TRUE, !.result = u.val,
                     !.trace = @ \o read \o <<[ev |-> "decode"]>>
                                 \o (IF c.debug
                                     THEN <<LogLine(<<"[DEBUG] Failed to unmarshal response: ",
                                                      u.err>>)>>
                                     ELSE <<>>)
                                 \o <<[ev |-> "close"]>>,
                     !.err = Errorf(<<"failed to decode response: ", u.err>>, u.err),
                     !.ret = ReturnError(call.method)]
            ELSE [call EXCEPT
                     !.pc = "done", !.resp.closed = TRUE, !.result = u.val,
                     !.trace = @ \o read \o <<[ev |-> "decode"]>>
                                 \o (IF c.debug
                                     THEN <<[ev |-> "log", parsed |-> u.val]>>
                                     ELSE <<>>)
                                 \o <<[ev |-> "close"]>>,
                     !.err = NilError,
                     !.ret = ReturnResult(call.method, u.val)]
        Checked(respBodyBytes, status, read) ==
            IF /\ status < 200 \/ status >= 300
               /\ \/ call.method = "doJSONRequest"
                  \/ Unmarshal(respBodyBytes, ResultType(call.method),
                               call.result).err = ""
            THEN [call EXCEPT
                     !.pc = "done", !.resp.closed = TRUE,
                     !.trace = @ \o read \o <<[ev |-> "close"]>>,
                     !.err = Errorf(<<"API request failed with status ">>
                                    \o FmtInt(status) \o <<": ">> \o respBodyBytes, ""),
                     !.ret = ReturnError(call.method)]
            ELSE IF call.method = "doJSONRequest"
            THEN [call EXCEPT
                     !.pc = "done", !.resp.closed = TRUE,
                     !.trace = @ \o read \o <<[ev |-> "close"]>>,
                     !.err = NilError]
            ELSE Decoded(read, Unmarshal(respBodyBytes, ResultType(call.method),
                                         call.result))
        Read(respBodyBytes) ==
            Checked(respBodyBytes, call.resp.StatusCode,
                    <<[ev |-> "read"]>>
                    \o (IF c.debug THEN logResponseBody(respBodyBytes) ELSE <<>>)
                    \o <<[ev |-> "status"]>>)
    IN  Read(call.resp.Body)

\* doJSONRequest taking only the statuses from 400 on for failures.
doJSONRequestFinishFrom400(c, call) ==
    LET Decoded(read, u) ==
            IF u.err # ""
            THEN [call EXCEPT
                     !.pc = "done", !.resp.closed = TRUE, !.result = u.val,
                     !.trace = @ \o read \o <<[ev |-> "decode"]>>
                                 \o (IF c.debug
                                     THEN <<LogLine(<<"[DEBUG] Failed to unmarshal response: ",
                                                      u.err>>)>>
                                     ELSE <<>>)
                                 \o <<[ev |-> "close"]>>,
                     !.err = Errorf(<<"failed to decode response: ", u.err>>, u.err),
                     !.ret = ReturnError(call.method)]
            ELSE [call EXCEPT
                     !.pc = "done", !.resp.closed = TRUE, !.result = u.val,
                     !.trace = @ \o read \o <<[ev |-> "decode"]>>
                                 \o (IF c.debug
                                     THEN <<[ev |-> "log", parsed |-> u.val]>>
                                     ELSE <<>>)
                                 \o <<[ev |-> "close"]>>,
                     !.err = NilError,
                     !.ret = ReturnResult(call.method, u.val)]
        Checked(respBodyBytes, status, read) ==
            IF status >= 400
            THEN [call EXCEPT
                     !.pc = "done", !.resp.closed = TRUE,
                     !.trace = @ \o read \o <<[ev |-> "close"]>>,
                     !.err = Errorf(<<"API request failed with status ">>
                                    \o FmtInt(status) \o <<": ">> \o respBodyBytes, ""),
                     !.ret = ReturnError(call.method)]
            ELSE IF call.method = "doJSONRequest"
            THEN [call EXCEPT
                     !.pc = "done", !.resp.closed = TRUE,
                     !.trace = @ \o read \o <<[ev |-> "close"]>>,
                     !.err = NilError]
            ELSE Decoded(read, Unmarshal(respBodyBytes, ResultType(call.method),
                                         call.result))
        Read(respBodyBytes) ==
            Checked(respBodyBytes, call.resp.StatusCode,
                    <<[ev |-> "read"]>>
                    \o (IF c.debug THEN logResponseBody(respBodyBytes) ELSE <<>>)
                    \o <<[ev |-> "status"]>>)
    IN  Read(call.resp.Body)

\* doJSONRequest after io.ReadAll gave the whole body: the body is logged,
\* the status checked, the body decoded into the result variable, the
\* decoded value logged; the deferred Close runs and the method returns.
\* A call of doJSONRequest itself (method "doJSONRequest") has a nil
\* result: nothing is decoded.
doJSONRequestFinish(c, call) ==
    LET Decoded(read, u) ==
            IF u.err # ""
            THEN [call EXCEPT
                     !.pc = "done", !.resp.closed = TRUE, !.result = u.val,
                     !.trace = @ \o read \o <<[ev |-> "decode"]>>
                                 \o (IF c.debug
                                     THEN <<LogLine(<<"[DEBUG] Failed to unmarshal response: ",
                                                      u.err>>)>>
                                     ELSE <<>>)
                                 \o <<[ev |-> "close"]>>,
                     !.err = Errorf(<<"failed to decode response: ", u.err>>, u.err),
                     !.ret = ReturnError(call.method)]
            ELSE [call EXCEPT
                     !.pc = "done", !.resp.closed = TRUE, !.result = u.val,
                     !.trace = @ \o read \o <<[ev |-> "decode"]>>
                                 \o (IF c.debug
                                     THEN <<[ev |-> "log", parsed |-> u.val]>>
                                     ELSE <<>>)
                                 \o <<[ev |-> "close"]>>,
                     !.err = NilError,
                     !.ret = ReturnResult(call.method, u.val)]
        Checked(respBodyBytes, status, read) ==
            IF status < 200 \/ status >= 300
            THEN [call EXCEPT
                     !.pc = "done", !.resp.closed = TRUE,
                     !.trace = @ \o read \o <<[ev |-> "close"]>>,
                     !.err = Errorf(<<"API request failed with status ">>
                                    \o FmtInt(status) \o <<": ">> \o respBodyBytes, ""),
                     !.ret = ReturnError(call.method)]
            ELSE IF call.method = "doJSONRequest"
            THEN [call EXCEPT
                     !.pc = "done", !.resp.closed = TRUE,
                     !.trace = @ \o read \o <<[ev |-> "close"]>>,
                     !.err = NilError]
            ELSE Decoded(read, Unmarshal(respBodyBytes, ResultType(call.method),
                                         call.result))
        Read(respBodyBytes) ==
            Checked(respBodyBytes, call.resp.StatusCode,
                    <<[ev |-> "read"]>>
                    \o (IF c.debug THEN logResponseBody(respBodyBytes) ELSE <<>>)
                    \o <<[ev |-> "status"]>>)
    IN  Read(call.resp.Body)

----------------------------------------------------------------------------
(* The inputs                                                              *)

\* The longest credential string the header is computed for on its own.
MaxLen == 2

\* "http://h:8", a test server
TestURL == <<"h", "t", "t", "p", ":", "/", "/", "h", ":", "8">>

\* "http://h:x": the port is no number, url.Parse fails
InvalidURL == <<"h", "t", "t", "p", ":", "/", "/", "h", ":", "x">>

Keys == {<<"k", "1">>, <<"a">>}

Secrets == {<<>>, <<"s", "3">>}

\* The option lists given to the constructors that take options.
OptLists ==
    {<<>>,
     <<WithBaseURL(TestURL)>>,
     <<WithBaseURL(InvalidURL)>>,
     <<WithDebug(TRUE)>>,
     <<WithBaseURL(TestURL), WithDebug(TRUE)>>,
     <<WithDebug(TRUE), WithBaseURL(InvalidURL)>>,
     <<WithDebug(TRUE), WithDebug(FALSE)>>}

ChainIDs == {1, 137, -2}

Statuses == {199, 200, 299, 300, 404, 500}

\* invalid json
BodyInvalidJSON ==
    <<"i", "n", "v", "a", "l", "i", "d", " ", "j", "s", "o", "n">>

\* null
BodyNull ==
    <<"n", "u", "l", "l">>

\* {"baseFeePercentile":"2"}
BodyPercentile ==
    <<"{", "\"", "b", "a", "s", "e", "F", "e", "e", "P", "e", "r", "c", "e",
      "n", "t", "i", "l", "e", "\"", ":", "\"", "2", "\"", "}">>

\* {"busyThreshold":"3"}
BodyThreshold ==
    <<"{", "\"", "b", "u", "s", "y", "T", "h", "r", "e", "s", "h", "o", "l",
      "d", "\"", ":", "\"", "3", "\"", "}">>

\* ["24.0","25.1"]
BodyHistory ==
    <<"[", "\"", "2", "4", ".", "0", "\"", ",", "\"", "2", "5", ".", "1",
      "\"", "]">>

\* {"low":{"suggestedMaxFeePerGas":"9","minWaitTimeEstimate":15},"networkCongestion":0.5,"latestPriorityFeeRange":["0","3"],"baseFeeTrend":"up"}
BodyFees ==
    <<"{", "\"", "l", "o", "w", "\"", ":", "{", "\"", "s", "u", "g", "g",
      "e", "s", "t", "e", "d", "M", "a", "x", "F", "e", "e", "P", "e", "r",
      "G", "a", "s", "\"", ":", "\"", "9", "\"", ",", "\"", "m", "i", "n", "W",
      "a", "i", "t", "T", "i", "m", "e", "E", "s", "t", "i", "m", "a", "t",
      "e", "\"", ":", "1", "5", "}", ",", "\"", "n", "e", "t", "w", "o", "r",
      "k", "C", "o", "n", "g", "e", "s", "t", "i", "o", "n", "\"", ":", "0",
      ".", "5", ",", "\"", "l", "a", "t", "e", "s", "t", "P", "r", "i", "o",
      "r", "i", "t", "y", "F", "e", "e", "R", "a", "n", "g", "e", "\"", ":",
      "[", "\"", "0", "\"", ",", "\"", "3", "\"", "]", ",", "\"", "b", "a",
      "s", "e", "F", "e", "e", "T", "r", "e", "n", "d", "\"", ":", "\"", "u",
      "p", "\"", "}">>

\* {"baseFeePercentile":"2"  (cut short)
BodyTruncated ==
    <<"{", "\"", "b", "a", "s", "e", "F", "e", "e", "P", "e", "r", "c", "e",
      "n", "t", "i", "l", "e", "\"", ":", "\"", "2", "\"">>

\* {"baseFeeHistory":["24.0"]}
BodyWrappedHistory ==
    <<"{", "\"", "b", "a", "s", "e", "F", "e", "e", "H", "i", "s", "t", "o",
      "r", "y", "\"", ":", "[", "\"", "2", "4", ".", "0", "\"", "]", "}">>

\* []
BodyEmptyArray == <<"[", "]">>

BodyEmpty == <<>>

Bodies ==
    {BodyEmpty, BodyInvalidJSON, BodyTruncated, BodyNull, BodyPercentile,
     BodyThreshold, BodyHistory, BodyWrappedHistory, BodyEmptyArray, BodyFees}

\* What makes the transport fail, and what makes the read of a body fail.
TransportCauses == {"dns", "connect", "timeout", "context canceled"}

ReadCauses == {"unexpected EOF"}

CredAlphabet == {"k", ":", "~", "7"}

StringsUpTo(A, n) == UNION {[1..k -> A] : k \in 0..n}

----------------------------------------------------------------------------
(* The state machine                                                       *)

NoProbe == [fn |-> "", out |-> <<>>]

\* Every call of the four constructors with these arguments.
Constructed(Ks, Ss, Os) ==
    {[ctor |-> "NewClient", args |-> <<k, s>>] : k \in Ks, s \in Ss}
    \cup {[ctor |-> "NewClientWithAPIKey", args |-> <<k>>] : k \in Ks}
    \cup {[ctor |-> "NewClientWithOptions", args |-> <<k, s, o>>] :
             k \in Ks, s \in Ss, o \in Os}
    \cup {[ctor |-> "NewClientWithAPIKeyAndOptions", args |-> <<k, o>>] :
             k \in Ks, o \in Os}

\* The constructor call b names, made on an empty heap.
Construct(b) ==
    CASE b.ctor = "NewClient" -> NewClient(<<>>, b.args[1], b.args[2])
      [] b.ctor = "NewClientWithAPIKey" -> NewClientWithAPIKey(<<>>, b.args[1])
      [] b.ctor = "NewClientWithOptions" ->
            NewClientWithOptions(<<>>, b.args[1], b.args[2], b.args[3])
      [] b.ctor = "NewClientWithAPIKeyAndOptions" ->
            NewClientWithAPIKeyAndOptions(<<>>, b.args[1], b.args[2])

InitWith(Callers, Ks, Ss, Os) ==
    \E b \in Constructed(Ks, Ss, Os) :
        /\ heap = Construct(b).heap
        /\ client = Construct(b).client
        /\ built = b
        /\ calls = [t \in Callers |-> Idle]
        /\ probe = NoProbe

GetSuggestedGasFees(t, chainID) ==
    /\ calls[t].pc = "idle"
    /\ calls' = [calls EXCEPT ![t] = BeginCall(client, "GetSuggestedGasFees", chainID)]
    /\ UNCHANGED <<heap, client, built, probe>>

GetBaseFeeHistory(t, chainID) ==
    /\ calls[t].pc = "idle"
    /\ calls' = [calls EXCEPT ![t] = BeginCall(client, "GetBaseFeeHistory", chainID)]
    /\ UNCHANGED <<heap, client, built, probe>>

GetBaseFeePercentile(t, chainID) ==
    /\ calls[t].pc = "idle"
    /\ calls' = [calls EXCEPT ![t] = BeginCall(client, "GetBaseFeePercentile", chainID)]
    /\ UNCHANGED <<heap, client, built, probe>>

GetBusyThreshold(t, chainID) ==
    /\ calls[t].pc = "idle"
    /\ calls' = [calls EXCEPT ![t] = BeginCall(client, "GetBusyThreshold", chainID)]
    /\ UNCHANGED <<heap, client, built, probe>>

\* doRequest keeping the URL it built in the client.
DoRequestKeepingURL(t) ==
    /\ calls[t].pc = "built"
    /\ calls' = [calls EXCEPT ![t] = doRequestSend(client, calls[t])]
    /\ client' = [client EXCEPT !.baseURL = client.baseURL \o calls[t].endpoint]
    /\ UNCHANGED <<heap, built, probe>>

\* The call reaches the transport, or fails to build its request.
DoRequest(t) ==
    /\ calls[t].pc = "built"
    /\ calls' = [calls EXCEPT ![t] = doRequestSend(client, calls[t])]
    /\ UNCHANGED <<heap, client, built, probe>>

\* The transport fails: DNS, connect, timeout, or the context is cancelled.
TransportFails(t, cause) ==
    /\ calls[t].pc = "sent"
    /\ calls' = [calls EXCEPT ![t] = doRequestFailed(client, calls[t], cause)]
    /\ UNCHANGED <<heap, client, built, probe>>

\* The transport returns a response.
TransportResponds(t, status, body) ==
    /\ calls[t].pc = "sent"
    /\ calls' = [calls EXCEPT ![t] = doRequestReceived(client, calls[t], status, body)]
    /\ UNCHANGED <<heap, client, built, probe>>

\* The body cannot be read to its end.
ReadFails(t, cause) ==
    /\ calls[t].pc = "received"
    /\ calls' = [calls EXCEPT ![t] = doJSONRequestReadFailed(client, calls[t], cause)]
    /\ UNCHANGED <<heap, client, built, probe>>

\* The body is read; the call runs to its return.
ReadAll(t) ==
    /\ calls[t].pc = "received"
    /\ calls' = [calls EXCEPT ![t] = doJSONRequestFinish(client, calls[t])]
    /\ UNCHANGED <<heap, client, built, probe>>

\* The caller has its result; it may call again.
Return(t) ==
    /\ calls[t].pc = "done"
    /\ calls' = [calls EXCEPT ![t] = Idle]
    /\ UNCHANGED <<heap, client, built, probe>>

NextWith(Callers, Chains, Sts, Bs, Causes) ==
    \E t \in Callers :
        \/ \E n \in Chains : GetSuggestedGasFees(t, n)
        \/ \E n \in Chains : GetBaseFeeHistory(t, n)
        \/ \E n \in Chains : GetBaseFeePercentile(t, n)
        \/ \E n \in Chains : GetBusyThreshold(t, n)
        \/ DoRequest(t)
        \/ \E cause \in Causes : TransportFails(t, cause)
        \/ \E st \in Sts, b \in Bs : TransportResponds(t, st, b)
        \/ \E cause \in ReadCauses : ReadFails(t, cause)
        \/ ReadAll(t)
        \/ Return(t)

\* One caller, every constructor, every kind of response.
Init == InitWith({"t1"}, Keys, Secrets, OptLists)

Next == NextWith({"t1"}, ChainIDs, Statuses, Bodies, TransportCauses)

Spec == Init /\ [][Next]_vars

\* doJSONRequest called with a nil body and a nil result.
DoJSONRequest(t, endpoint) ==
    /\ calls[t].pc = "idle"
    /\ calls' = [calls EXCEPT ![t] =
                    [Idle EXCEPT !.pc = "built", !.method = "doJSONRequest",
                                 !.endpoint = endpoint]]
    /\ UNCHANGED <<heap, client, built, probe>>

\* doJSONRequest with and without a result to decode into, against the
\* test server.
JSONInit ==
    InitWith({"t1"}, {<<"a">>}, Secrets,
             {<<WithBaseURL(TestURL)>>, <<WithBaseURL(TestURL), WithDebug(TRUE)>>})

JSONNext ==
    \/ DoJSONRequest("t1", <<"/", "x">>)
    \/ GetBaseFeePercentile("t1", 1)
    \/ DoRequest("t1")
    \/ \E st \in Statuses, b \in Bodies : TransportResponds("t1", st, b)
    \/ \E cause \in ReadCauses : ReadFails("t1", cause)
    \/ ReadAll("t1")

JSONSpec == JSONInit /\ [][JSONNext]_vars

\* getAuthHeader on its own, for every pair of credentials up to MaxLen
\* characters.
GetAuthHeader ==
    /\ probe.fn = ""
    /\ probe' = [fn |-> "getAuthHeader", out |-> getAuthHeader(client)]
    /\ UNCHANGED <<heap, client, built, calls>>

AuthInit ==
    InitWith({}, StringsUpTo(CredAlphabet, MaxLen),
             StringsUpTo(CredAlphabet, MaxLen), {})

AuthNext == GetAuthHeader

AuthSpec == AuthInit /\ [][AuthNext]_vars

\* Two callers share one client; their calls interleave step by step.
ConcInit ==
    InitWith({"t1", "t2"}, {<<"a">>}, Secrets,
             {<<>>, <<WithBaseURL(TestURL), WithDebug(TRUE)>>})

ConcNext ==
    NextWith({"t1", "t2"}, {1}, {200, 404}, {BodyInvalidJSON, BodyPercentile},
             {"timeout"})

ConcSpec == ConcInit /\ [][ConcNext]_vars

\* The longest option list given to a constructor.
MaxOpts == 3

\* The http.Client objects the caller has made before it constructs the
\* client, to hand them to WithHTTPClient: one with a timeout of 9 seconds,
\* one with none.
CallerHeap == <<[Timeout |-> 9], [Timeout |-> 0]>>

Options ==
    {WithBaseURL(TestURL), WithBaseURL(InvalidURL), WithHTTPClient(1),
     WithHTTPClient(2), WithTimeout(5), WithTimeout(7), WithDebug(TRUE),
     WithDebug(FALSE)}

\* No client is constructed yet.
NoClient ==
    [apiKey |-> <<>>, apiKeySecret |-> <<>>, baseURL |-> <<>>,
     httpClient |-> 0, debug |-> FALSE]

CallNewClient(apiKey, apiKeySecret) ==
    /\ built.ctor = ""
    /\ built' = [ctor |-> "NewClient", args |-> <<apiKey, apiKeySecret>>]
    /\ heap' = NewClient(heap, apiKey, apiKeySecret).heap
    /\ client' = NewClient(heap, apiKey, apiKeySecret).client
    /\ UNCHANGED <<calls, probe>>

CallNewClientWithAPIKey(apiKey) ==
    /\ built.ctor = ""
    /\ built' = [ctor |-> "NewClientWithAPIKey", args |-> <<apiKey>>]
    /\ heap' = NewClientWithAPIKey(heap, apiKey).heap
    /\ client' = NewClientWithAPIKey(heap, apiKey).client
    /\ UNCHANGED <<calls, probe>>

CallNewClientWithOptions(apiKey, apiKeySecret, opts) ==
    /\ built.ctor = ""
    /\ built' = [ctor |-> "NewClientWithOptions",
                 args |-> <<apiKey, apiKeySecret, opts>>]
    /\ heap' = NewClientWithOptions(heap, apiKey, apiKeySecret, opts).heap
    /\ client' = NewClientWithOptions(heap, apiKey, apiKeySecret, opts).client
    /\ UNCHANGED <<calls, probe>>

CallNewClientWithAPIKeyAndOptions(apiKey, opts) ==
    /\ built.ctor = ""
    /\ built' = [ctor |-> "NewClientWithAPIKeyAndOptions",
                 args |-> <<apiKey, opts>>]
    /\ heap' = NewClientWithAPIKeyAndOptions(heap, apiKey, opts).heap
    /\ client' = NewClientWithAPIKeyAndOptions(heap, apiKey, opts).client
    /\ UNCHANGED <<calls, probe>>

\* The constructors on their own, with every option list up to MaxOpts.
OptInit ==
    /\ heap = CallerHeap
    /\ client = NoClient
    /\ built = [ctor |-> "", args |-> <<>>]
    /\ calls = [t \in {} |-> Idle]
    /\ probe = NoProbe

OptNext ==
    \/ \E k \in Keys, s \in Secrets : CallNewClient(k, s)
    \/ \E k \in Keys : CallNewClientWithAPIKey(k)
    \/ \E k \in Keys, s \in Secrets, o \in StringsUpTo(Options, MaxOpts) :
           CallNewClientWithOptions(k, s, o)
    \/ \E k \in Keys, o \in StringsUpTo(Options, MaxOpts) :
           CallNewClientWithAPIKeyAndOptions(k, o)

OptSpec == OptInit /\ [][OptNext]_vars

\* A second client is constructed while the first is in use; probe keeps
\* the heap and the first client as they were before, and the new client.
ConstructAgain(apiKey, apiKeySecret, opts) ==
    /\ built.ctor # ""
    /\ probe.fn = ""
    /\ heap' = NewClientWithOptions(heap, apiKey, apiKeySecret, opts).heap
    /\ probe' = [fn  |-> "NewClientWithOptions",
                 out |-> [heap   |-> heap,
                          client |-> client,
                          made   |-> NewClientWithOptions(heap, apiKey, apiKeySecret,
                                                          opts).client]]
    /\ UNCHANGED <<client, built, calls>>

\* One client constructed, on its own transport or on one of the caller's,
\* and then a second one with every option list up to MaxOpts.
FrameNext ==
    \/ \E s \in Secrets : CallNewClient(<<"a">>, s)
    \/ \E s \in Secrets, o \in StringsUpTo({WithHTTPClient(1), WithHTTPClient(2)}, 1) :
           CallNewClientWithOptions(<<"a">>, s, o)
    \/ \E o \in StringsUpTo(Options, MaxOpts) : ConstructAgain(<<"k", "1">>, <<>>, o)

FrameSpec == OptInit /\ [][FrameNext]_vars

\* The SuggestedGasFees values the test server is given to answer with:
\* fee strings that are empty, a decimal, or hold characters JSON escapes;
\* wait times that are zero, positive and negative; congestion ratios
\* written with a decimal point, without one, and with an exponent; ranges
\* that are nil, empty and of two elements.
FeeValues ==
    LET Fees == {<<>>, <<"0", ".", "0", "5">>, <<"a", "\"", "<", "\\", "/">>}
        Waits == {0, 15000, -1}
        Ratios == {NormFloat(0, 0), NormFloat(7143, -4), NormFloat(15, -8)}
        Ranges == {[nil |-> TRUE, elems |-> <<>>], [nil |-> FALSE, elems |-> <<>>],
                   [nil |-> FALSE,
                    elems |-> <<<<"0", ".", "1">>, <<"2", "0">>>>]}
        Level(p, f, a, b) ==
            [SuggestedMaxPriorityFeePerGas |-> p, SuggestedMaxFeePerGas |-> f,
             MinWaitTimeEstimate |-> a, MaxWaitTimeEstimate |-> b]
    IN  {[Low |-> Level(f, <<"9">>, w, 30000),
          Medium |-> Level(<<"0", ".", "1">>, f, 15000, w),
          High |-> Level(f, f, w, w),
          EstimatedBaseFee |-> f,
          NetworkCongestion |-> x,
          LatestPriorityFeeRange |-> r,
          HistoricalPriorityFeeRange |-> [nil |-> FALSE, elems |-> <<f>>],
          HistoricalBaseFeeRange |-> r,
          PriorityFeeTrend |-> <<"d", "o", "w", "n">>,
          BaseFeeTrend |-> f] :
            f \in Fees, w \in Waits, x \in Ratios, r \in Ranges}

\* The test server answers 200 with the JSON encoding of v.
TransportEncodes(t, v) ==
    /\ calls[t].pc = "sent"
    /\ calls[t].method = "GetSuggestedGasFees"
    /\ calls' = [calls EXCEPT ![t] = doRequestReceived(client, calls[t], 200,
                                                       Encode(v, SuggestedGasFees))]
    /\ probe' = [fn |-> "Encode", out |-> v]
    /\ UNCHANGED <<heap, client, built>>

\* One call of GetSuggestedGasFees against the test server.
RoundTripInit ==
    InitWith({"t1"}, {<<"a">>}, Secrets, {<<WithBaseURL(TestURL)>>})

RoundTripNext ==
    \/ GetSuggestedGasFees("t1", 1)
    \/ DoRequest("t1")
    \/ \E v \in FeeValues : TransportEncodes("t1", v)
    \/ ReadAll("t1")

RoundTripSpec == RoundTripInit /\ [][RoundTripNext]_vars

\* The longest Authorization value that is logged.
MaxAuthLen == 22

\* A value of n characters: the last digit of each position, and fill at
\* every step-th position.
AuthValue(n, fill, step) ==
    [i \in 1..n |-> IF i % step = 0 THEN fill ELSE FmtInt(i % 10)[1]]

AuthValues ==
    {AuthValue(n, fill, step) :
        n \in 0..MaxAuthLen, fill \in {"*", "=", "B"}, step \in {1, 3}}

\* The request doRequest has made when it calls logRequest, with auth as its
\* Authorization value.
RequestWith(c, auth) ==
    LET req == NewRequestWithContext("GET", c.baseURL \o <<"/">>, "nil").req
    IN  [req EXCEPT !.Header =
            HeaderSet(HeaderSet(HeaderSet(<<>>, "Authorization", auth),
                                "Content-Type", sApplicationJSON),
                      "Accept", sApplicationJSON)]

\* logRequest is called on a request with this Authorization value.
LogRequest(auth) ==
    /\ probe.fn = ""
    /\ probe' = [fn |-> "logRequest",
                 out |-> <<auth, logRequest(RequestWith(client, auth))>>]
    /\ UNCHANGED <<heap, client, built, calls>>

MaskInit == InitWith({}, {<<"a">>}, Secrets, {<<WithDebug(TRUE)>>})

MaskNext == \E auth \in AuthValues : LogRequest(auth)

MaskSpec == MaskInit /\ [][MaskNext]_vars

----------------------------------------------------------------------------
(* What the properties are stated with                                     *)

\* The number of times the transport was called in a call's trace.
Sends(tr) == Cardinality({i \in 1..Len(tr) : tr[i].ev = "send"})

\* The events of a trace without its diagnostic output.
RECURSIVE NonLog(_)
NonLog(tr) ==
    IF tr = <<>> THEN <<>>
    ELSE IF Head(tr).ev = "log" THEN NonLog(Tail(tr))
    ELSE <<Head(tr)>> \o NonLog(Tail(tr))

\* The chain IDs of the inputs, in decimal.
ChainText(n) ==
    CASE n = 1 -> <<"1">>
      [] n = 137 -> <<"1", "3", "7">>
      [] n = -2 -> <<"-", "2">>

\* The endpoint each method is documented to address.
EndpointText(method) ==
    CASE method = "GetSuggestedGasFees" ->
            <<"s", "u", "g", "g", "e", "s", "t", "e", "d", "G", "a", "s", "F",
              "e", "e", "s">>
      [] method = "GetBaseFeeHistory" ->
            <<"b", "a", "s", "e", "F", "e", "e", "H", "i", "s", "t", "o", "r",
              "y">>
      [] method = "GetBaseFeePercentile" ->
            <<"b", "a", "s", "e", "F", "e", "e", "P", "e", "r", "c", "e", "n",
              "t", "i", "l", "e">>
      [] method = "GetBusyThreshold" ->
            <<"b", "u", "s", "y", "T", "h", "r", "e", "s", "h", "o", "l", "d">>

\* /networks/{n}/{endpoint}
NetworksPath(n, method) ==
    <<"/", "n", "e", "t", "w", "o", "r", "k", "s", "/">> \o ChainText(n)
    \o <<"/">> \o EndpointText(method)

\* The calls that are past doRequest's build-and-send step.
PastSend == {t \in DOMAIN calls : calls[t].pc \in {"sent", "received", "done"}}

\* The state the call of client c is in when it is given what the call
\* `call` was given (method, chain ID, the transport's answer, the outcome
\* of the read) and has come as far as `call` has.
Replay(c, call) ==
    LET Read(rcvd) ==
            IF call.pc = "received" THEN rcvd
            ELSE IF call.cause # "" THEN doJSONRequestReadFailed(c, rcvd, call.cause)
            ELSE doJSONRequestFinish(c, rcvd)
        Got(sent) ==
            IF call.pc = "sent" \/ sent.pc = "done" THEN sent
            ELSE IF call.resp.StatusCode = 0
            THEN doRequestFailed(c, sent, call.cause)
            ELSE Read(doRequestReceived(c, sent, call.resp.StatusCode,
                                        call.resp.Body))
        Sent(b) == IF call.pc = "built" THEN b ELSE Got(doRequestSend(c, b))
    IN  IF call.pc = "idle" THEN Idle
        ELSE Sent(BeginCall(c, call.method, call.chainID))

----------------------------------------------------------------------------
(* The two ways a request is authenticated                                 *)

\* C1: a client with a non-empty secret sends, from each of the four
\* methods, a request whose path is /networks/{n}/{endpoint} and which
\* carries a non-empty Authorization header; the only call that sends
\* nothing is one whose base address gives no valid URL.
BasicModeRequest ==
    \A t \in PastSend :
        client.apiKeySecret # <<>> =>
            IF calls[t].err.wraps = "url.Error"
            THEN client.baseURL = InvalidURL /\ Sends(calls[t].trace) = 0
            ELSE /\ Sends(calls[t].trace) = 1
                 /\ calls[t].req.Method = "GET"
                 /\ calls[t].req.URL.Path
                        = NetworksPath(calls[t].chainID, calls[t].method)
                 /\ URLString(calls[t].req.URL)
                        = client.baseURL \o calls[t].req.URL.Path
                 /\ HeaderHas(calls[t].req.Header, "Authorization")
                 /\ HeaderGet(calls[t].req.Header, "Authorization") # <<>>

\* A client with a secret has sent the request of GetBaseFeeHistory for
\* chain 137.
BasicModeRequestSent ==
    /\ client.apiKeySecret # <<>>
    /\ calls["t1"].pc = "sent"
    /\ calls["t1"].method = "GetBaseFeeHistory"
    /\ calls["t1"].chainID = 137
    /\ Sends(calls["t1"].trace) = 1

\* C2: a client with an empty secret, whichever constructor built it,
\* sends a request whose path is /v3/{credential}/networks/{n}/{endpoint}
\* and which carries no Authorization header.
URLModeRequest ==
    \A t \in PastSend :
        client.apiKeySecret = <<>> =>
            IF calls[t].err.wraps = "url.Error"
            THEN client.baseURL = InvalidURL /\ Sends(calls[t].trace) = 0
            ELSE /\ Sends(calls[t].trace) = 1
                 /\ calls[t].req.Method = "GET"
                 /\ calls[t].req.URL.Path
                        = <<"/", "v", "3", "/">> \o built.args[1]
                          \o NetworksPath(calls[t].chainID, calls[t].method)
                 /\ ~HeaderHas(calls[t].req.Header, "Authorization")

\* A client built by NewClientWithOptions with an empty secret has sent the
\* request of GetSuggestedGasFees.
URLModeRequestSent ==
    /\ built.ctor = "NewClientWithOptions"
    /\ client.apiKeySecret = <<>>
    /\ calls["t1"].pc = "sent"
    /\ calls["t1"].method = "GetSuggestedGasFees"
    /\ Sends(calls["t1"].trace) = 1

\* C3: the mode follows from the secret being empty or not, never from the
\* constructor: a client of the two-credential constructors given an empty
\* secret is the client the one-credential constructor gives for the same
\* credential and options, and its calls go as that client's calls go.
EmptySecretIsURLMode ==
    LET SameAs(twin) ==
            /\ ~hasSecret(client)
            /\ ~hasSecret(twin.client)
            /\ twin.client = client
            /\ twin.heap = heap
            /\ \A t \in DOMAIN calls : calls[t] = Replay(twin.client, calls[t])
            /\ \A t \in PastSend :
                   ~HeaderHas(calls[t].req.Header, "Authorization")
    IN  /\ hasSecret(client)
               <=> /\ built.ctor \in {"NewClient", "NewClientWithOptions"}
                   /\ built.args[2] # <<>>
        /\ (built.ctor = "NewClient" /\ built.args[2] = <<>>)
               => SameAs(NewClientWithAPIKey(<<>>, built.args[1]))
        /\ (built.ctor = "NewClientWithOptions" /\ built.args[2] = <<>>)
               => SameAs(NewClientWithAPIKeyAndOptions(<<>>, built.args[1],
                                                       built.args[3]))

\* NewClientWithOptions was given an empty secret and options, and a call
\* of the client has returned a decoded result.
EmptySecretCallReturned ==
    /\ built.ctor = "NewClientWithOptions"
    /\ built.args[2] = <<>>
    /\ built.args[3] # <<>>
    /\ calls["t1"].pc = "done"
    /\ calls["t1"].err.nil
    /\ Sends(calls["t1"].trace) = 1

----------------------------------------------------------------------------
(* What a response makes of the call                                       *)

\* The calls that have returned after the body of a response was read.
ReturnedWithBody ==
    {t \in DOMAIN calls : /\ calls[t].pc = "done"
                          /\ calls[t].resp.StatusCode # 0
                          /\ calls[t].cause = ""}

\* The status codes of the inputs, in decimal.
StatusText(status) ==
    CASE status = 199 -> <<"1", "9", "9">>
      [] status = 200 -> <<"2", "0", "0">>
      [] status = 299 -> <<"2", "9", "9">>
      [] status = 300 -> <<"3", "0", "0">>
      [] status = 404 -> <<"4", "0", "4">>
      [] status = 500 -> <<"5", "0", "0">>

\* C4: a response whose status is outside [200,300) makes the call return
\* a nil result and an error whose message holds the status code in decimal
\* and the text of the body as received, whatever the body is.
ErrorStatusGivesAPIError ==
    \A t \in ReturnedWithBody :
        (calls[t].resp.StatusCode < 200 \/ calls[t].resp.StatusCode >= 300) =>
            /\ ~calls[t].err.nil
            /\ calls[t].ret.nil
            /\ Contains(calls[t].err.msg, StatusText(calls[t].resp.StatusCode))
            /\ Contains(calls[t].err.msg, calls[t].resp.Body)
            /\ calls[t].err.msg
                   = <<"API request failed with status ">>
                     \o StatusText(calls[t].resp.StatusCode) \o <<": ">>
                     \o calls[t].resp.Body

\* A call has returned on a 404 whose body is a well-formed answer.
ErrorStatusReturned ==
    /\ calls["t1"].pc = "done"
    /\ calls["t1"].resp.StatusCode = 404
    /\ calls["t1"].resp.Body = BodyPercentile
    /\ calls["t1"].method = "GetBaseFeePercentile"
    /\ calls["t1"].cause = ""
    /\ ~calls["t1"].err.nil

\* The bodies of the inputs that are no JSON text.
NotJSON == {BodyEmpty, BodyInvalidJSON, BodyTruncated}

\* C5: a response with a 2xx status whose body is not JSON makes the call
\* return a decode error and a nil result; it never returns a zero-valued
\* result without an error.
InvalidJSONGivesDecodeError ==
    \A t \in ReturnedWithBody :
        (/\ calls[t].resp.StatusCode >= 200
         /\ calls[t].resp.StatusCode < 300
         /\ calls[t].resp.Body \in NotJSON) =>
            /\ ~calls[t].err.nil
            /\ calls[t].ret.nil
            /\ calls[t].err.msg[1] = "failed to decode response: "
            /\ calls[t].err.wraps = "syntax"

\* GetBaseFeeHistory has returned on a 200 whose body is cut short.
InvalidJSONReturned ==
    /\ calls["t1"].pc = "done"
    /\ calls["t1"].method = "GetBaseFeeHistory"
    /\ calls["t1"].resp.StatusCode = 200
    /\ calls["t1"].resp.Body = BodyTruncated
    /\ calls["t1"].cause = ""
    /\ ~calls["t1"].err.nil

----------------------------------------------------------------------------
(* The Authorization header                                                *)

\* C6: for every pair of credentials getAuthHeader gives "Basic " followed
\* by a base64 text, and decoding that text gives back the first
\* credential, a colon, and the secret.
AuthHeaderDecodesToCredentials ==
    LET Decoded(d) ==
            /\ d.ok
            /\ FromBytes(d.bytes)
                   = client.apiKey \o <<":">> \o client.apiKeySecret
    IN  probe.fn = "getAuthHeader" =>
            /\ Take(probe.out, 6) = <<"B", "a", "s", "i", "c", " ">>
            /\ Decoded(DecodeString(Drop(probe.out, 6)))

\* The header was computed for a credential and a secret that hold a colon
\* and a character whose encoding leaves the letters and digits.
AuthHeaderComputed ==
    /\ probe.fn = "getAuthHeader"
    /\ client.apiKey = <<"k", ":">>
    /\ client.apiKeySecret = <<"~", "~">>
    /\ Len(probe.out) = 14

----------------------------------------------------------------------------
(* One call, many calls                                                    *)

\* C7: a call invokes the transport at most once, whatever comes of it: a
\* failed transport, a failed read, an error status or a decode error is
\* followed by no second attempt.
AtMostOneSend ==
    \A t \in DOMAIN calls :
        /\ Sends(calls[t].trace) <= 1
        /\ (calls[t].pc = "done" /\ calls[t].err.wraps # "url.Error")
               => Sends(calls[t].trace) = 1

\* A call has returned the error of a transport that failed.
FailedCallReturned ==
    /\ calls["t1"].pc = "done"
    /\ calls["t1"].cause = "connect"
    /\ calls["t1"].resp.StatusCode = 0
    /\ Sends(calls["t1"].trace) = 1

\* C8: no call changes the client, so a call goes as it would go alone:
\* with another call in flight on the same client, and after any calls
\* made before, the client is as constructed and every call is in the state
\* its own inputs lead to.
CallsAreIndependent ==
    LET AsAlone(orig) ==
            /\ client = orig.client
            /\ heap = orig.heap
            /\ \A t \in DOMAIN calls : calls[t] = Replay(orig.client, calls[t])
    IN  AsAlone(Construct(built))

\* One caller has returned on an error status while the other, in another
\* method, has its response and has not read it.
TwoCallsInFlight ==
    /\ calls["t1"].pc = "done"
    /\ calls["t1"].method = "GetBusyThreshold"
    /\ calls["t1"].resp.StatusCode = 404
    /\ calls["t2"].pc = "received"
    /\ calls["t2"].method = "GetSuggestedGasFees"
    /\ calls["t2"].resp.StatusCode = 200

\* C9: the diagnostic switch changes nothing but the diagnostic output:
\* the client with the switch the other way sends the same request and
\* returns the same result and the same error, and only a client with the
\* switch on writes diagnostic lines.
DebugChangesOnlyTheLog ==
    LET SameBut(other, call) ==
            /\ other.pc = call.pc
            /\ other.req = call.req
            /\ other.resp = call.resp
            /\ other.result = call.result
            /\ other.ret = call.ret
            /\ other.err = call.err
            /\ NonLog(other.trace) = NonLog(call.trace)
            /\ (~client.debug) => (NonLog(call.trace) = call.trace)
            /\ client.debug => (NonLog(other.trace) = other.trace)
            /\ (client.debug /\ Sends(call.trace) = 1)
                   => Len(call.trace) > Len(other.trace)
    IN  \A t \in DOMAIN calls :
            SameBut(Replay([client EXCEPT !.debug = ~client.debug], calls[t]),
                    calls[t])

\* A client with the switch on has returned a decoded result.
DebugCallReturned ==
    /\ client.debug
    /\ calls["t1"].pc = "done"
    /\ calls["t1"].err.nil
    /\ ~calls["t1"].ret.nil
    /\ calls["t1"].resp.StatusCode = 200

\* C10: when the transport fails (DNS, connect, timeout, cancelled
\* context) the call returns a nil result and an error that wraps the
\* cause; no body is read, no status checked, nothing decoded.
TransportFailureIsReturned ==
    \A t \in DOMAIN calls :
        (calls[t].pc = "done" /\ calls[t].resp.StatusCode = 0
         /\ calls[t].cause # "") =>
            /\ calls[t].cause \in TransportCauses
            /\ calls[t].ret.nil
            /\ ~calls[t].err.nil
            /\ calls[t].err.wraps = calls[t].cause
            /\ calls[t].err.msg = <<"failed to execute request: ", calls[t].cause>>
            /\ calls[t].result = Zero(ResultType(calls[t].method))
            /\ \A i \in 1..Len(calls[t].trace) :
                   calls[t].trace[i].ev \in {"log", "send"}

\* A call has returned after its context was cancelled in the transport.
CancelledCallReturned ==
    /\ calls["t1"].pc = "done"
    /\ calls["t1"].cause = "context canceled"
    /\ calls["t1"].resp.StatusCode = 0
    /\ calls["t1"].method = "GetBaseFeeHistory"
    /\ ~calls["t1"].err.nil

----------------------------------------------------------------------------
(* The response body and the request headers                               *)

\* The number of times a response body was closed in a call's trace.
Closes(tr) == Cardinality({i \in 1..Len(tr) : tr[i].ev = "close"})

\* C11: every response the transport gave has its body closed when the
\* call returns, on every return path (failed read, error status, decode
\* error, success): closed once, as the last thing the call does, and not
\* before the call has read it.
ResponseBodyClosed ==
    \A t \in DOMAIN calls :
        /\ (calls[t].pc = "done" /\ calls[t].resp.StatusCode # 0) =>
               /\ calls[t].resp.closed
               /\ Closes(calls[t].trace) = 1
               /\ calls[t].trace[Len(calls[t].trace)].ev = "close"
        /\ calls[t].pc = "received" =>
               (~calls[t].resp.closed /\ Closes(calls[t].trace) = 0)
        /\ calls[t].resp.StatusCode = 0 => Closes(calls[t].trace) = 0

\* A call has returned the error of a body that could not be read.
ReadFailureReturned ==
    /\ calls["t1"].pc = "done"
    /\ calls["t1"].resp.StatusCode = 200
    /\ calls["t1"].cause = "unexpected EOF"
    /\ calls["t1"].resp.closed

\* C12: every request the client sends, with or without a secret and from
\* every method, carries Content-Type: application/json and
\* Accept: application/json.
JSONHeadersOnEveryRequest ==
    \A t \in PastSend :
        Sends(calls[t].trace) = 1 =>
            /\ HeaderGet(calls[t].req.Header, "Content-Type")
                   = <<"a", "p", "p", "l", "i", "c", "a", "t", "i", "o", "n",
                       "/", "j", "s", "o", "n">>
            /\ HeaderGet(calls[t].req.Header, "Accept")
                   = <<"a", "p", "p", "l", "i", "c", "a", "t", "i", "o", "n",
                       "/", "j", "s", "o", "n">>
            /\ Cardinality({i \in 1..Len(calls[t].req.Header) :
                               calls[t].req.Header[i][1]
                                   \in {"Content-Type", "Accept"}}) = 2

\* A client without a secret has sent the request of GetBusyThreshold.
URLModeHeadersSent ==
    /\ ~hasSecret(client)
    /\ calls["t1"].pc = "sent"
    /\ calls["t1"].method = "GetBusyThreshold"
    /\ Len(calls["t1"].req.Header) = 2

----------------------------------------------------------------------------
(* Construction and options                                                *)

\* The option list the constructor was given (none for the constructors
\* that take no options).
OptsGiven ==
    CASE built.ctor = "NewClientWithOptions" -> built.args[3]
      [] built.ctor = "NewClientWithAPIKeyAndOptions" -> built.args[2]
      [] OTHER -> <<>>

\* The place of the last option of one of these kinds in a list, 0 when
\* there is none.
LastOption(opts, kinds) ==
    Max(0, CHOOSE m \in 0..Len(opts) :
               /\ m > 0 => opts[m].opt \in kinds
               /\ \A i \in (m + 1)..Len(opts) : opts[i].opt \notin kinds)

\* The timeout of the transport the client uses.
EffectiveTimeout(h, c) == h[c.httpClient].Timeout

OptionOrderIrrelevant ==
    LET Same(a, b) ==
            /\ a.client = b.client
            /\ EffectiveTimeout(a.heap, a.client)
                   = EffectiveTimeout(b.heap, b.client)
    IN  (/\ built.ctor = "NewClientWithOptions"
         /\ Len(OptsGiven) = 2
         /\ OptsGiven[1].opt # OptsGiven[2].opt) =>
            Same([client |-> client, heap |-> heap],
                 NewClientWithOptions(CallerHeap, built.args[1], built.args[2],
                                      <<OptsGiven[2], OptsGiven[1]>>))

\* C15: a client built by any of the four constructors holds the
\* credential and the secret as passed (the empty secret for the
\* one-credential constructors), and what no option overrides is the
\* default: the base address https://gas.api.infura.io, a transport of its
\* own with a timeout of 30 seconds, diagnostics off.
DefaultsWithoutOptions ==
    LET Defaults(opts) ==
            /\ LastOption(opts, {"WithBaseURL"}) = 0 =>
                   client.baseURL
                       = <<"h", "t", "t", "p", "s", ":", "/", "/", "g", "a",
                           "s", ".", "a", "p", "i", ".", "i", "n", "f", "u",
                           "r", "a", ".", "i", "o">>
            /\ LastOption(opts, {"WithDebug"}) = 0 => ~client.debug
            /\ LastOption(opts, {"WithHTTPClient"}) = 0 =>
                   client.httpClient = Len(CallerHeap) + 1
            /\ LastOption(opts, {"WithHTTPClient", "WithTimeout"}) = 0 =>
                   EffectiveTimeout(heap, client) = 30
    IN  built.ctor # "" =>
            /\ client.apiKey = built.args[1]
            /\ client.apiKeySecret
                   = (IF built.ctor \in {"NewClient", "NewClientWithOptions"}
                      THEN built.args[2] ELSE <<>>)
            /\ Defaults(OptsGiven)

\* NewClientWithAPIKey has built a client.
DefaultClientBuilt ==
    /\ built.ctor = "NewClientWithAPIKey"
    /\ client.apiKey = <<"k", "1">>
    /\ client.apiKeySecret = <<>>
    /\ EffectiveTimeout(heap, client) = 30
    /\ ~client.debug

----------------------------------------------------------------------------
(* What is decoded                                                         *)

\* C16: GetBaseFeeHistory decodes a 2xx body that is a bare JSON array of
\* strings into a sequence of the same length in the same order (an empty
\* array into an empty sequence), and takes no wrapping object for the
\* history: an object gives a decode error and a nil result.
BareArrayDecoded ==
    \A t \in ReturnedWithBody :
        (/\ calls[t].method = "GetBaseFeeHistory"
         /\ calls[t].resp.StatusCode >= 200
         /\ calls[t].resp.StatusCode < 300) =>
            /\ calls[t].resp.Body = BodyHistory =>
                   /\ calls[t].err.nil
                   /\ ~calls[t].ret.nil
                   /\ calls[t].ret.elems
                          = <<<<"2", "4", ".", "0">>, <<"2", "5", ".", "1">>>>
            /\ calls[t].resp.Body = BodyEmptyArray =>
                   /\ calls[t].err.nil
                   /\ calls[t].ret.elems = <<>>
            /\ calls[t].resp.Body
                   \in {BodyWrappedHistory, BodyPercentile, BodyFees} =>
                   /\ ~calls[t].err.nil
                   /\ calls[t].ret.nil
                   /\ calls[t].err.msg[1] = "failed to decode response: "

\* GetBaseFeeHistory has returned the two elements of a 200 response.
HistoryReturned ==
    /\ calls["t1"].pc = "done"
    /\ calls["t1"].method = "GetBaseFeeHistory"
    /\ calls["t1"].resp.StatusCode = 200
    /\ calls["t1"].resp.Body = BodyHistory
    /\ calls["t1"].err.nil
    /\ Len(calls["t1"].ret.elems) = 2

\* C17: when the server answers 200 with the JSON encoding of a
\* SuggestedGasFees value, GetSuggestedGasFees returns, with a nil error, a
\* value equal to it field by field: the three levels with their two fee
\* strings and two wait times, the base fee, the congestion ratio, the
\* three ranges, the two trends.
EncodedValueReturned ==
    LET SameLevel(a, b) ==
            /\ a.SuggestedMaxPriorityFeePerGas = b.SuggestedMaxPriorityFeePerGas
            /\ a.SuggestedMaxFeePerGas = b.SuggestedMaxFeePerGas
            /\ a.MinWaitTimeEstimate = b.MinWaitTimeEstimate
            /\ a.MaxWaitTimeEstimate = b.MaxWaitTimeEstimate
        Same(a, b) ==
            /\ SameLevel(a.Low, b.Low)
            /\ SameLevel(a.Medium, b.Medium)
            /\ SameLevel(a.High, b.High)
            /\ a.EstimatedBaseFee = b.EstimatedBaseFee
            /\ a.NetworkCongestion = b.NetworkCongestion
            /\ a.LatestPriorityFeeRange = b.LatestPriorityFeeRange
            /\ a.HistoricalPriorityFeeRange = b.HistoricalPriorityFeeRange
            /\ a.HistoricalBaseFeeRange = b.HistoricalBaseFeeRange
            /\ a.PriorityFeeTrend = b.PriorityFeeTrend
            /\ a.BaseFeeTrend = b.BaseFeeTrend
    IN  \A t \in DOMAIN calls :
            (calls[t].pc = "done" /\ probe.fn = "Encode") =>
                /\ calls[t].err.nil
                /\ ~calls[t].ret.nil
                /\ Same(calls[t].ret.val, probe.out)
                /\ DOMAIN calls[t].ret.val = DOMAIN probe.out

\* The call has returned a value whose strings hold escaped characters,
\* whose ratio is written with an exponent and whose ranges are nil.
EscapedValueReturned ==
    /\ calls["t1"].pc = "done"
    /\ probe.fn = "Encode"
    /\ probe.out.EstimatedBaseFee = <<"a", "\"", "<", "\\", "/">>
    /\ probe.out.NetworkCongestion = [mant |-> 15, exp |-> -8]
    /\ probe.out.LatestPriorityFeeRange.nil
    /\ probe.out.Low.MinWaitTimeEstimate = -1
    /\ calls["t1"].err.nil

----------------------------------------------------------------------------
(* Errors                                                                  *)

\* C18: when no request can be built from the base address and the path
\* (the base address is no valid URL), the call returns at once a nil
\* result and the request-build error; the transport is not called, there
\* is no response, and nothing is logged.
BuildErrorWithoutSend ==
    \A t \in PastSend :
        client.baseURL = InvalidURL =>
            /\ calls[t].pc = "done"
            /\ ~calls[t].err.nil
            /\ calls[t].err.msg = <<"failed to create request: ", "url.Error">>
            /\ calls[t].ret.nil
            /\ Sends(calls[t].trace) = 0
            /\ calls[t].trace = <<>>
            /\ calls[t].req = NoRequest
            /\ calls[t].resp = NoResponse

\* A call on a client with diagnostics on and an invalid base address has
\* returned.
BuildErrorReturned ==
    /\ client.baseURL = InvalidURL
    /\ client.debug
    /\ calls["t1"].pc = "done"
    /\ calls["t1"].method = "GetBaseFeePercentile"
    /\ ~calls["t1"].err.nil

\* The bodies a method cannot decode into its result: those that are no
\* JSON, an object for the history, an array for the three structs.
Undecodable(method, body) ==
    \/ body \in NotJSON
    \/ /\ method = "GetBaseFeeHistory"
       /\ body \in {BodyPercentile, BodyThreshold, BodyFees, BodyWrappedHistory}
    \/ /\ method # "GetBaseFeeHistory"
       /\ body \in {BodyHistory, BodyEmptyArray}

\* C20: every method sends a GET without body, and its caller gets every
\* error of doJSONRequest as it is, with a nil result: the call returns a
\* non-nil error exactly when building the request, the transport, the
\* read of the body, the status check or the decoding failed, and the
\* error is the one of that step.
ErrorsReachTheCaller ==
    LET Expected(call) ==
            IF client.baseURL = InvalidURL
            THEN Errorf(<<"failed to create request: ", "url.Error">>, "url.Error")
            ELSE IF call.resp.StatusCode = 0
            THEN Errorf(<<"failed to execute request: ", call.cause>>, call.cause)
            ELSE IF call.cause # ""
            THEN Errorf(<<"failed to read response body: ", call.cause>>, call.cause)
            ELSE IF call.resp.StatusCode < 200 \/ call.resp.StatusCode >= 300
            THEN Errorf(<<"API request failed with status ">>
                        \o StatusText(call.resp.StatusCode) \o <<": ">>
                        \o call.resp.Body, "")
            ELSE IF call.resp.Body \in NotJSON
            THEN Errorf(<<"failed to decode response: ", "syntax">>, "syntax")
            ELSE IF Undecodable(call.method, call.resp.Body)
            THEN Errorf(<<"failed to decode response: ", "type">>, "type")
            ELSE NilError
    IN  \A t \in DOMAIN calls :
            /\ (t \in PastSend /\ Sends(calls[t].trace) = 1) =>
                   (calls[t].req.Method = "GET" /\ calls[t].req.Body = "nil")
            /\ calls[t].pc = "done" =>
                   /\ calls[t].err = Expected(calls[t])
                   /\ ~calls[t].err.nil => calls[t].ret.nil

\* GetBusyThreshold has returned the error of a 500 response.
ServerErrorReturned ==
    /\ calls["t1"].pc = "done"
    /\ calls["t1"].method = "GetBusyThreshold"
    /\ calls["t1"].resp.StatusCode = 500
    /\ calls["t1"].cause = ""
    /\ ~calls["t1"].err.nil
    /\ calls["t1"].ret.nil

----------------------------------------------------------------------------
(* The log                                                                 *)

\* The Authorization values in the header lines logRequest wrote.
LoggedAuthorization(log) ==
    {SubSeq(l, 4, Len(l)) : l \in {h \in log[7].headers : h[2] = "Authorization"}}

----------------------------------------------------------------------------
(* The order of the steps                                                  *)

\* C21: doJSONRequest reads the whole body, then checks the status, then
\* decodes.  A body that cannot be read gives the read error whatever the
\* status; a status outside 200..299 gives the API error whatever the body,
\* and nothing is decoded; the body is decoded exactly when it was read,
\* the status is 2xx and the result is not nil, and with a nil result a 2xx
\* response gives no error whatever the body.
ReadThenStatusThenDecode ==
    LET Ev(name) == [ev |-> name]
        Ordered(call, steps, ok2xx) ==
            /\ steps \in {<<Ev("send"), Ev("response"), Ev("read"), Ev("close")>>,
                          <<Ev("send"), Ev("response"), Ev("read"), Ev("status"),
                            Ev("close")>>,
                          <<Ev("send"), Ev("response"), Ev("read"), Ev("status"),
                            Ev("decode"), Ev("close")>>}
            /\ call.cause # "" =>
                   /\ Len(steps) = 4
                   /\ call.err = Errorf(<<"failed to read response body: ",
                                          call.cause>>, call.cause)
            /\ (call.cause = "" /\ ~ok2xx) =>
                   /\ Len(steps) = 5
                   /\ call.err = Errorf(<<"API request failed with status ">>
                                        \o StatusText(call.resp.StatusCode)
                                        \o <<": ">> \o call.resp.Body, "")
            /\ Len(steps) = 6 <=>
                   (call.cause = "" /\ ok2xx /\ call.method # "doJSONRequest")
            /\ (call.cause = "" /\ ok2xx /\ call.method = "doJSONRequest") =>
                   call.err.nil
    IN  \A t \in DOMAIN calls :
            (calls[t].pc = "done" /\ calls[t].resp.StatusCode # 0) =>
                Ordered(calls[t], NonLog(calls[t].trace),
                        calls[t].resp.StatusCode >= 200
                        /\ calls[t].resp.StatusCode < 300)

\* doJSONRequest with a nil result has returned from a 200 response whose
\* body is not JSON.
NilResultReturned ==
    /\ calls["t1"].pc = "done"
    /\ calls["t1"].method = "doJSONRequest"
    /\ calls["t1"].resp.StatusCode = 200
    /\ calls["t1"].resp.Body = BodyInvalidJSON
    /\ calls["t1"].cause = ""
    /\ calls["t1"].err.nil

\* C22: with debug on the events of a call come in this order: the request
\* is logged, the request is sent, the status and headers of the response
\* are logged, the body is read, the raw body is logged, the status is
\* checked, the body is decoded, the decoded value is logged.  The raw body
\* is logged for every status; the decoded value is logged only when the
\* decode gave no error; when the transport fails neither response headers
\* nor a body are logged.
DebugEventOrder ==
    LET Ev(name) == [ev |-> name]
        AfterStatus(call) ==
            IF call.resp.StatusCode < 200 \/ call.resp.StatusCode >= 300
            THEN <<>>
            ELSE IF call.err.nil
            THEN <<Ev("decode"), [ev |-> "log", parsed |-> call.result]>>
            ELSE <<Ev("decode"),
                   LogLine(<<"[DEBUG] Failed to unmarshal response: ", call.err.wraps>>)>>
        AfterResponse(call) ==
            logResponseHeaders(call.resp) \o <<Ev("read")>>
            \o (IF call.cause # "" THEN <<>>
                ELSE logResponseBody(call.resp.Body) \o <<Ev("status")>>
                     \o AfterStatus(call))
            \o <<Ev("close")>>
        Expected(call) ==
            logRequest(call.req) \o <<Ev("send")>>
            \o (IF call.resp.StatusCode = 0
                THEN <<LogLine(<<"[DEBUG] Request failed: ", call.cause>>)>>
                ELSE <<Ev("response")>> \o AfterResponse(call))
        Dumps(tr) == {i \in 1..Len(tr) : "parsed" \in DOMAIN tr[i]}
    IN  \A t \in DOMAIN calls :
            (client.debug /\ calls[t].pc = "done" /\ Sends(calls[t].trace) = 1) =>
                /\ calls[t].trace = Expected(calls[t])
                /\ Dumps(calls[t].trace) # {} => calls[t].err.nil

\* A call with debug on has returned the API error of a 404 response whose
\* body is not JSON.
DebugErrorStatusReturned ==
    /\ client.debug
    /\ calls["t1"].pc = "done"
    /\ calls["t1"].method = "GetSuggestedGasFees"
    /\ calls["t1"].resp.StatusCode = 404
    /\ calls["t1"].resp.Body = BodyInvalidJSON
    /\ calls["t1"].cause = ""

----------------------------------------------------------------------------
(* The credential                                                          *)

\* C23: every request an endpoint method sends carries the credential in
\* exactly one place: its path starts with /v3/{apiKey}/ if and only if it
\* has no Authorization header.  The builder of the path and doRequest
\* read hasSecret on the same client, and never disagree.
OneCredentialCarrier ==
    \A t \in PastSend :
        Sends(calls[t].trace) = 1 =>
            /\ HasPrefix(calls[t].req.URL.Path,
                         <<"/", "v", "3", "/">> \o client.apiKey \o <<"/">>)
                   <=> ~HeaderHas(calls[t].req.Header, "Authorization")
            /\ HasPrefix(calls[t].endpoint, <<"/", "v", "3", "/">>)
                   <=> ~hasSecret(client)
            /\ HeaderHas(calls[t].req.Header, "Authorization") <=> hasSecret(client)

\* GetBusyThreshold has sent its request for a client without secret.
BusyThresholdSentInURLMode ==
    /\ calls["t1"].pc = "sent"
    /\ calls["t1"].method = "GetBusyThreshold"
    /\ client.apiKeySecret = <<>>
    /\ ~HeaderHas(calls["t1"].req.Header, "Authorization")

----------------------------------------------------------------------------
(* Results                                                                 *)

\* C24: every endpoint method returns exactly one of a non-nil result and
\* a non-nil error, for every status and every body and for all four
\* methods: never both nil, never both non-nil.
ResultXorError ==
    \A t \in DOMAIN calls :
        (calls[t].pc = "done" /\ calls[t].method # "doJSONRequest") =>
            (calls[t].ret.nil <=> ~calls[t].err.nil)

\* The texts a trace wrote to the log: the lines, the header lines, the
\* response bodies.
LoggedTexts(tr) ==
    UNION {IF tr[i].ev # "log" THEN {}
           ELSE IF "text" \in DOMAIN tr[i] THEN {tr[i].text}
           ELSE IF "headers" \in DOMAIN tr[i] THEN tr[i].headers
           ELSE IF "body" \in DOMAIN tr[i] THEN {tr[i].body}
           ELSE {} : i \in 1..Len(tr)}

\* C25: with debug on, in both modes, no text written to the log holds the
\* API key in clear or the whole Authorization value.  (A key of a single
\* character occurs in the fixed text of the log, as the "a" of
\* application/json does; the property is stated for longer keys.)
CredentialNotLogged ==
    \A t \in DOMAIN calls :
        (client.debug /\ Len(client.apiKey) >= 2) =>
            \A text \in LoggedTexts(calls[t].trace) :
                /\ ~Contains(text, client.apiKey)
                /\ hasSecret(client) => ~Contains(text, getAuthHeader(client))

----------------------------------------------------------------------------
(* What a construction leaves alone                                        *)

\* C26: a constructor changes no object the new client does not own: the
\* http.Client objects the caller made keep their timeout whatever options
\* they are passed with, and a client constructed before keeps its
\* configuration and the timeout in effect for it.
ConstructionChangesNothingElse ==
    /\ built.ctor # "" =>
           \A h \in DOMAIN CallerHeap : heap[h].Timeout = CallerHeap[h].Timeout
    /\ probe.fn = "NewClientWithOptions" =>
           /\ client = probe.out.client
           /\ EffectiveTimeout(heap, client)
                  = EffectiveTimeout(probe.out.heap, probe.out.client)

====
